---- MODULE Spec2Model ----
(***************************************************************************)
(* The awless template parser (template/ast/awless-template-syntax.peg.go) *)
(* as a state machine: the Peg object's fields and the variables captured  *)
(* by the closures of Peg.Init are the state, and Init, Reset, Parse and   *)
(* Execute are the actions.  The rule functions of the generated parser    *)
(* are operators over the closure state (position, tokenIndex, tree, max). *)
(* Offsets are 0-based as in the source; buffer[position] is At(b, pos).   *)
(***************************************************************************)
EXTENDS Integers, Sequences, FiniteSets, TLC

\* ------------------------------------------------------------------ text

\* const endSymbol rune = 1114112: no code point of a Go string equals it.
endSymbol == "<U+110000>"

\* []rune(str): the code points of a string, one 1-character string each.
Runes(str) == [i \in 1..Len(str) |-> SubSeq(str, i, i)]

\* What a slice holds between its length and its capacity: the language
\* does not say, so it stands for any content.
spare == "<spare>"

\* string(runes[begin:end]) with 0-based half-open offsets, for an end
\* within the capacity of runes.
RECURSIVE Text(_, _, _)
Text(b, begin, end) ==
  IF begin >= end THEN ""
  ELSE (IF begin < Len(b) THEN b[begin + 1] ELSE spare) \o Text(b, begin + 1, end)

CharSet(str) == {SubSeq(str, i, i) : i \in 1..Len(str)}

Digit == CharSet("0123456789")
Upper == CharSet("ABCDEFGHIJKLMNOPQRSTUVWXYZ")
Lower == CharSet("abcdefghijklmnopqrstuvwxyz")

\* buffer[position]
At(b, pos) == b[pos + 1]

\* ---------------------------------------------------------------- tokens

\* type pegRule uint8: the enumeration, ruleUnknown = iota.
ruleUnknown == 0
ruleScript == 1
ruleStatement == 2
ruleAction == 3
ruleEntity == 4
ruleDeclaration == 5
ruleExpr == 6
ruleParams == 7
ruleParam == 8
ruleIdentifier == 9
ruleValue == 10
ruleStringValue == 11
ruleCidrValue == 12
ruleIpValue == 13
ruleIntValue == 14
ruleIntRangeValue == 15
ruleRefValue == 16
ruleAliasValue == 17
ruleHoleValue == 18
ruleComment == 19
ruleSpacing == 20
ruleWhiteSpacing == 21
ruleMustWhiteSpacing == 22
ruleEqual == 23
ruleSpace == 24
ruleWhitespace == 25
ruleEndOfLine == 26
ruleEndOfFile == 27
rulePegText == 28
ruleAction0 == 29
ruleAction1 == 30
ruleAction2 == 31
ruleAction3 == 32
ruleAction4 == 33
ruleAction5 == 34
ruleAction6 == 35
ruleAction7 == 36
ruleAction8 == 37
ruleAction9 == 38
ruleAction10 == 39
ruleAction11 == 40
ruleAction12 == 41
ruleAction13 == 42

\* var rul3s: the rule names, in the order of the pegRule enumeration.
rul3s ==
  << "Unknown", "Script", "Statement", "Action", "Entity", "Declaration",
     "Expr", "Params", "Param", "Identifier", "Value", "StringValue",
     "CidrValue", "IpValue", "IntValue", "IntRangeValue", "RefValue",
     "AliasValue", "HoleValue", "Comment", "Spacing", "WhiteSpacing",
     "MustWhiteSpacing", "Equal", "Space", "Whitespace", "EndOfLine",
     "EndOfFile", "PegText", "Action0", "Action1", "Action2", "Action3",
     "Action4", "Action5", "Action6", "Action7", "Action8", "Action9",
     "Action10", "Action11", "Action12", "Action13" >>

\* type token32 struct { pegRule; begin, end uint32 }
token32(rule, begin, end) == [pegRule |-> rule, begin |-> begin, end |-> end]

\* token32{}: the zero value of an unwritten slot.
zeroToken == token32(ruleUnknown, 0, 0)

\* math.MaxInt16, the length of the store made by Init.
MaxInt16 == 32767

\* tokens32{tree: make([]token32, n)}.  A store is a slice of length len
\* whose first Len(recs) slots are recs and whose other slots are zeroToken.
makeTokens32(n) == [len |-> n, recs |-> << >>]

\* The zero value of the embedded tokens32 field: a nil slice.
nilTokens32 == makeTokens32(0)

\* Add as it would be without copy(expanded, tree).
tokens32AddNoCopy(t, rule, begin, end, index) ==
  LET tok == token32(rule, begin, end)
      n   == Len(t.recs)
  IN IF index >= t.len
     THEN [len |-> 2 * t.len, recs |-> [i \in 1..index |-> zeroToken] \o <<tok>>]
     ELSE [len  |-> t.len,
           recs |-> IF index < n
                    THEN [t.recs EXCEPT ![index + 1] = tok]
                    ELSE t.recs \o [i \in 1..(index - n) |-> zeroToken] \o <<tok>>]

\* Add as it would be with begin and end in each other's place.
tokens32AddSwapped(t, rule, begin, end, index) ==
  LET grown == IF index >= t.len THEN 2 * t.len ELSE t.len
      tok   == token32(rule, end, begin)
      n     == Len(t.recs)
  IN [len  |-> grown,
      recs |-> IF index < n
               THEN [t.recs EXCEPT ![index + 1] = tok]
               ELSE t.recs \o [i \in 1..(index - n) |-> zeroToken] \o <<tok>>]

\* func (t *tokens32) Add(rule, begin, end, index)
tokens32Add(t, rule, begin, end, index) ==
  LET grown == IF index >= t.len THEN 2 * t.len ELSE t.len
      tok   == token32(rule, begin, end)
      n     == Len(t.recs)
  IN [len  |-> grown,
      recs |-> IF index < n
               THEN [t.recs EXCEPT ![index + 1] = tok]
               ELSE t.recs \o [i \in 1..(index - n) |-> zeroToken] \o <<tok>>]

\* func (t *tokens32) Trim(length): t.tree = t.tree[:length]
tokens32Trim(t, length) ==
  [len  |-> length,
   recs |-> IF length < Len(t.recs) THEN SubSeq(t.recs, 1, length) ELSE t.recs]

\* func (t *tokens32) Tokens(): the slots that can hold a record; the slots
\* past them are zeroToken, which Execute and AST both pass over.
tokens32Tokens(t) == t.recs

\* ------------------------------------------------- the matcher's state

\* The variables captured by the closures of Init.
closure(position, tokenIndex, tree, max) ==
  [position |-> position, tokenIndex |-> tokenIndex, tree |-> tree, max |-> max]

\* A rule's result: whether it matched, and the closure state it leaves.
Ok(s) == [ok |-> TRUE, s |-> s]

\* restore as it would be if an abandoned attempt kept its records.
restoreKeepTokenIndex(s, saved) == [s EXCEPT !.position = saved.position]

\* position, tokenIndex = positionN, tokenIndexN
restore(s, saved) ==
  [s EXCEPT !.position = saved.position, !.tokenIndex = saved.tokenIndex]

\* Fail as it would be if a failing rule restored the position alone.
FailKeepTokenIndex(s, saved) ==
  [ok |-> FALSE, s |-> [s EXCEPT !.position = saved.position]]

Fail(s, saved) == [ok |-> FALSE, s |-> restore(s, saved)]

advance(s, pos) == [s EXCEPT !.position = pos]

\* add as it would be if max moved on every non-empty token.
addMaxAlways(s, rule, begin) ==
  [s EXCEPT
     !.tree = tokens32Add(s.tree, rule, begin, s.position, s.tokenIndex),
     !.tokenIndex = s.tokenIndex + 1,
     !.max = IF begin # s.position THEN token32(rule, begin, s.position) ELSE s.max]

\* add as it would be if max moved on a token ending where max ends.
addAtOrPastMax(s, rule, begin) ==
  [s EXCEPT
     !.tree = tokens32Add(s.tree, rule, begin, s.position, s.tokenIndex),
     !.tokenIndex = s.tokenIndex + 1,
     !.max = IF begin # s.position /\ s.position >= s.max.end
             THEN token32(rule, begin, s.position)
             ELSE s.max]

\* add := func(rule pegRule, begin uint32)
add(s, rule, begin) ==
  [s EXCEPT
     !.tree = tokens32Add(s.tree, rule, begin, s.position, s.tokenIndex),
     !.tokenIndex = s.tokenIndex + 1,
     !.max = IF begin # s.position /\ s.position > s.max.end
             THEN token32(rule, begin, s.position)
             ELSE s.max]

\* ------------------------------------------- primitives on a position
\* Each takes a position, or -1 for "the sequence has already failed", and
\* gives the position after the match, or -1.

\* matchDot as it would be without its test for the end symbol.
matchDotAny(b, pos) ==
  IF pos < 0 THEN -1 ELSE pos + 1

\* matchDot := func() bool
matchDot(b, pos) ==
  IF pos < 0 THEN -1 ELSE IF At(b, pos) # endSymbol THEN pos + 1 ELSE -1

\* if buffer[position] != rune(c) { goto fail }; position++
matchChar(b, pos, c) ==
  IF pos < 0 THEN -1 ELSE IF At(b, pos) = c THEN pos + 1 ELSE -1

\* A literal, one matchChar after the other.
RECURSIVE matchString(_, _, _)
matchString(b, pos, lit) ==
  IF lit = "" THEN pos
  ELSE matchString(b, matchChar(b, pos, SubSeq(lit, 1, 1)), SubSeq(lit, 2, Len(lit)))

\* if c := buffer[position]; c < lo || c > hi { goto fail }; position++
matchClass(b, pos, class) ==
  IF pos < 0 THEN -1 ELSE IF At(b, pos) \in class THEN pos + 1 ELSE -1

\* class*: the loop that restores the position of its last, failed attempt.
RECURSIVE classStar(_, _, _)
classStar(b, pos, class) ==
  IF pos < 0 THEN -1
  ELSE IF matchClass(b, pos, class) < 0 THEN pos
  ELSE classStar(b, matchClass(b, pos, class), class)

\* class+
classPlus(b, pos, class) == classStar(b, matchClass(b, pos, class), class)

\* The first alternative of lits, in order, that matches at pos.
RECURSIVE firstOf(_, _, _)
firstOf(b, pos, lits) ==
  IF lits = << >> THEN -1
  ELSE IF matchString(b, pos, Head(lits)) >= 0 THEN matchString(b, pos, Head(lits))
  ELSE firstOf(b, pos, Tail(lits))

\* ------------------------------------------------------ rule functions

\* F of the value v, evaluated once: the local variable of a rule function.
Bind(v, F(_)) == F(v)

\* 24 Whitespace <- <(' ' / '\t')>
Whitespace(b, s) ==
  Bind(firstOf(b, s.position, <<" ", "\t">>), LAMBDA pos :
    IF pos >= 0 THEN Ok(add(advance(s, pos), ruleWhitespace, s.position))
    ELSE Fail(s, s))

\* 25 EndOfLine <- <(('\r' '\n') / '\n' / '\r')>
EndOfLine(b, s) ==
  Bind(firstOf(b, s.position, <<"\r\n", "\n", "\r">>), LAMBDA pos :
    IF pos >= 0 THEN Ok(add(advance(s, pos), ruleEndOfLine, s.position))
    ELSE Fail(s, s))

\* Whitespace*
RECURSIVE whitespaceStar(_, _)
whitespaceStar(b, s) ==
  Bind(Whitespace(b, s), LAMBDA r :
    IF r.ok THEN whitespaceStar(b, r.s) ELSE restore(r.s, s))

\* EndOfLine*
RECURSIVE endOfLineStar(_, _)
endOfLineStar(b, s) ==
  Bind(EndOfLine(b, s), LAMBDA r :
    IF r.ok THEN endOfLineStar(b, r.s) ELSE restore(r.s, s))

\* Space*, with 23 Space <- <(Whitespace / EndOfLine)> inlined
RECURSIVE spaceStar(_, _)
spaceStar(b, s) ==
  Bind(Whitespace(b, s), LAMBDA w :
  Bind(IF w.ok THEN w ELSE EndOfLine(b, restore(w.s, s)), LAMBDA r :
    IF r.ok THEN spaceStar(b, add(r.s, ruleSpace, s.position))
    ELSE restore(r.s, s)))

\* 19 Spacing <- <Space*>
Spacing(b, s) == Ok(add(spaceStar(b, s), ruleSpacing, s.position))

\* 20 WhiteSpacing <- <Whitespace*>
WhiteSpacing(b, s) == Ok(add(whitespaceStar(b, s), ruleWhiteSpacing, s.position))

\* 21 MustWhiteSpacing <- <Whitespace+>
MustWhiteSpacing(b, s) ==
  Bind(Whitespace(b, s), LAMBDA r :
    IF r.ok THEN Ok(add(whitespaceStar(b, r.s), ruleMustWhiteSpacing, s.position))
    ELSE Fail(r.s, s))

\* 22 Equal <- <(Spacing '=' Spacing)>
Equal(b, s) ==
  Bind(Spacing(b, s), LAMBDA sp :
  Bind(matchChar(b, sp.s.position, "="), LAMBDA eq :
    IF eq >= 0 THEN Ok(add(Spacing(b, advance(sp.s, eq)).s, ruleEqual, s.position))
    ELSE Fail(sp.s, s)))

\* identifierClass as it would be with [0-9] among its ranges.
identifierClassWithDigits == {".", "_", "-"} \cup Upper \cup Lower \cup Digit

\* The characters of an Identifier: '.', '_', '-', [A-Z], [a-z].
identifierClass == {".", "_", "-"} \cup Upper \cup Lower

\* 8 Identifier <- <(...)+>
Identifier(b, s) ==
  Bind(classPlus(b, s.position, identifierClass), LAMBDA pos :
    IF pos >= 0 THEN Ok(add(advance(s, pos), ruleIdentifier, s.position))
    ELSE Fail(s, s))

\* 2 Action: three ordered alternatives, then a switch on the next character.
matchAction(b, pos) ==
  Bind(firstOf(b, pos, <<"create", "delete", "start">>), LAMBDA alt :
    IF alt >= 0 THEN alt
    ELSE IF At(b, pos) = "d" THEN matchString(b, pos, "detach")
    ELSE IF At(b, pos) = "c" THEN matchString(b, pos, "check")
    ELSE IF At(b, pos) = "a" THEN matchString(b, pos, "attach")
    ELSE IF At(b, pos) = "u" THEN matchString(b, pos, "update")
    ELSE matchString(b, pos, "stop"))

\* entityAlternatives as it would be with "route" tried before "routetable".
entityAlternativesRouteFirst ==
  <<"vpc", "subnet", "instance", "tag", "role", "securitygroup", "route",
    "routetable", "storageobject">>

\* The ordered alternatives of Entity that precede its switch.
entityAlternatives ==
  <<"vpc", "subnet", "instance", "tag", "role", "securitygroup", "routetable",
    "storageobject">>

\* 3 Entity: eight ordered alternatives, then a switch on the next character.
matchEntity(b, pos) ==
  Bind(firstOf(b, pos, entityAlternatives), LAMBDA alt :
    IF alt >= 0 THEN alt
    ELSE IF At(b, pos) = "q" THEN matchString(b, pos, "queue")
    ELSE IF At(b, pos) = "t" THEN matchString(b, pos, "topic")
    ELSE IF At(b, pos) = "s" THEN matchString(b, pos, "subscription")
    ELSE IF At(b, pos) = "b" THEN matchString(b, pos, "bucket")
    ELSE IF At(b, pos) = "r" THEN matchString(b, pos, "route")
    ELSE IF At(b, pos) = "i" THEN matchString(b, pos, "internetgateway")
    ELSE IF At(b, pos) = "k" THEN matchString(b, pos, "keypair")
    ELSE IF At(b, pos) = "p" THEN matchString(b, pos, "policy")
    ELSE IF At(b, pos) = "g" THEN matchString(b, pos, "group")
    ELSE IF At(b, pos) = "u" THEN matchString(b, pos, "user")
    ELSE matchString(b, pos, "volume"))

\* matchIpValue as it would be if the grammar's . were the literal '.'.
matchIpValueLiteralDot(b, pos) ==
  classPlus(b, matchChar(b,
  classPlus(b, matchChar(b,
  classPlus(b, matchChar(b,
  classPlus(b, pos, Digit), "."), Digit), "."), Digit), "."), Digit)

\* 12 IpValue <- <([0-9]+ . [0-9]+ . [0-9]+ . [0-9]+)>
matchIpValue(b, pos) ==
  classPlus(b, matchDot(b,
  classPlus(b, matchDot(b,
  classPlus(b, matchDot(b,
  classPlus(b, pos, Digit)), Digit)), Digit)), Digit)

\* 11 CidrValue <- <([0-9]+ . [0-9]+ . [0-9]+ . [0-9]+ '/' [0-9]+)>
matchCidrValue(b, pos) ==
  classPlus(b, matchChar(b, matchIpValue(b, pos), "/"), Digit)

\* 14 IntRangeValue <- <([0-9]+ '-' [0-9]+)>
matchIntRangeValue(b, pos) ==
  classPlus(b, matchChar(b, classPlus(b, pos, Digit), "-"), Digit)

\* 13 IntValue <- <[0-9]+>
matchIntValue(b, pos) == classPlus(b, pos, Digit)

\* The characters of a StringValue: '/', ':', '_', '.', '-', [0-9], [A-Z], [a-z].
stringValueClass == {"/", ":", "_", ".", "-"} \cup Digit \cup Upper \cup Lower

\* 10 StringValue <- <(...)+>
matchStringValue(b, pos) == classPlus(b, pos, stringValueClass)

\* <Rule> ActionN, for a rule that adds no record of its own inside:
\* add(rule, begin); add(rulePegText, begin); add(action, position).
captured(s, end, rule, action) ==
  add(add(add(advance(s, end), rule, s.position), rulePegText, s.position), action, end)

\* sigilValue as it would be if the text capture began at the sigil.
sigilValueWithSigil(b, s, rule, action) ==
  Bind(Identifier(b, advance(s, s.position + 1)), LAMBDA id :
    IF id.ok
    THEN Ok(add(add(add(id.s, rulePegText, s.position), rule, s.position),
                action, id.s.position))
    ELSE Fail(id.s, s))

\* 15 RefValue <- <('$' <Identifier>)> Action7
\* 16 AliasValue <- <('@' <Identifier>)> Action6
sigilValue(b, s, rule, action) ==
  Bind(Identifier(b, advance(s, s.position + 1)), LAMBDA id :
    IF id.ok
    THEN Ok(add(add(add(id.s, rulePegText, s.position + 1), rule, s.position),
                action, id.s.position))
    ELSE Fail(id.s, s))

\* HoleValue as it would be if the text capture spanned the braces.
HoleValueWithBraces(b, s) ==
  Bind(WhiteSpacing(b, advance(s, s.position + 1)), LAMBDA w1 :
  Bind(Identifier(b, w1.s), LAMBDA id :
    IF ~id.ok THEN Fail(id.s, s)
    ELSE
  Bind(WhiteSpacing(b, id.s), LAMBDA w2 :
  Bind(matchChar(b, w2.s.position, "}"), LAMBDA cb :
    IF cb < 0 THEN Fail(w2.s, s)
    ELSE Ok(add(add(add(advance(w2.s, cb), rulePegText, s.position),
                    ruleHoleValue, s.position), ruleAction5, cb))))))

\* 17 HoleValue <- <('{' WhiteSpacing <Identifier> WhiteSpacing '}')> Action5
HoleValue(b, s) ==
  Bind(WhiteSpacing(b, advance(s, s.position + 1)), LAMBDA w1 :
  Bind(Identifier(b, w1.s), LAMBDA id :
    IF ~id.ok THEN Fail(id.s, s)
    ELSE
  Bind(WhiteSpacing(b, add(id.s, rulePegText, w1.s.position)), LAMBDA w2 :
  Bind(matchChar(b, w2.s.position, "}"), LAMBDA cb :
    IF cb < 0 THEN Fail(w2.s, s)
    ELSE Ok(add(add(advance(w2.s, cb), ruleHoleValue, s.position), ruleAction5, cb))))))

\* valueAlternative as it would be with IpValue tried before CidrValue.
valueAlternativeIpFirst(b, s) ==
  Bind(matchIpValue(b, s.position), LAMBDA ip :
    IF ip >= 0 THEN Ok(captured(s, ip, ruleIpValue, ruleAction9))
    ELSE
  Bind(matchCidrValue(b, s.position), LAMBDA cidr :
    IF cidr >= 0 THEN Ok(captured(s, cidr, ruleCidrValue, ruleAction8))
    ELSE
  Bind(matchIntRangeValue(b, s.position), LAMBDA range :
    IF range >= 0 THEN Ok(captured(s, range, ruleIntRangeValue, ruleAction10))
    ELSE
  Bind(matchIntValue(b, s.position), LAMBDA int :
    IF int >= 0 THEN Ok(captured(s, int, ruleIntValue, ruleAction11))
    ELSE IF At(b, s.position) = "$" THEN sigilValue(b, s, ruleRefValue, ruleAction7)
    ELSE IF At(b, s.position) = "@" THEN sigilValue(b, s, ruleAliasValue, ruleAction6)
    ELSE IF At(b, s.position) = "{" THEN HoleValue(b, s)
    ELSE
  Bind(matchStringValue(b, s.position), LAMBDA str :
    IF str >= 0 THEN Ok(captured(s, str, ruleStringValue, ruleAction12))
    ELSE Fail(s, s))))))

\* The alternatives of Value, in order: Cidr, Ip, IntRange, Int, then the
\* switch on '$', '@', '{' and, by default, StringValue.
valueAlternative(b, s) ==
  Bind(matchCidrValue(b, s.position), LAMBDA cidr :
    IF cidr >= 0 THEN Ok(captured(s, cidr, ruleCidrValue, ruleAction8))
    ELSE
  Bind(matchIpValue(b, s.position), LAMBDA ip :
    IF ip >= 0 THEN Ok(captured(s, ip, ruleIpValue, ruleAction9))
    ELSE
  Bind(matchIntRangeValue(b, s.position), LAMBDA range :
    IF range >= 0 THEN Ok(captured(s, range, ruleIntRangeValue, ruleAction10))
    ELSE
  Bind(matchIntValue(b, s.position), LAMBDA int :
    IF int >= 0 THEN Ok(captured(s, int, ruleIntValue, ruleAction11))
    ELSE IF At(b, s.position) = "$" THEN sigilValue(b, s, ruleRefValue, ruleAction7)
    ELSE IF At(b, s.position) = "@" THEN sigilValue(b, s, ruleAliasValue, ruleAction6)
    ELSE IF At(b, s.position) = "{" THEN HoleValue(b, s)
    ELSE
  Bind(matchStringValue(b, s.position), LAMBDA str :
    IF str >= 0 THEN Ok(captured(s, str, ruleStringValue, ruleAction12))
    ELSE Fail(s, s))))))

\* 9 Value <- <(...)>
Value(b, s) ==
  Bind(valueAlternative(b, s), LAMBDA alt :
    IF alt.ok THEN Ok(add(alt.s, ruleValue, s.position)) ELSE Fail(alt.s, s))

\* 7 Param <- <(<Identifier> Action4 Equal Value WhiteSpacing)>
Param(b, s) ==
  Bind(Identifier(b, s), LAMBDA id :
    IF ~id.ok THEN Fail(id.s, s)
    ELSE
  Bind(Equal(b, add(add(id.s, rulePegText, s.position), ruleAction4, id.s.position)),
       LAMBDA eq :
    IF ~eq.ok THEN Fail(eq.s, s)
    ELSE
  Bind(Value(b, eq.s), LAMBDA v :
    IF ~v.ok THEN Fail(v.s, s)
    ELSE Ok(add(WhiteSpacing(b, v.s).s, ruleParam, s.position)))))

\* The loop of Param+ after its first Param.
RECURSIVE paramStar(_, _)
paramStar(b, s) ==
  Bind(Param(b, s), LAMBDA r :
    IF r.ok THEN paramStar(b, r.s) ELSE restore(r.s, s))

\* The optional as it would be if a failed first Param gave back its own
\* input only, and not the whitespace before it.
optionalParamsKeepWhitespace(b, s) ==
  Bind(MustWhiteSpacing(b, s), LAMBDA w :
    IF ~w.ok THEN restore(w.s, s)
    ELSE
  Bind(Param(b, w.s), LAMBDA first :
    IF ~first.ok THEN restore(first.s, w.s)
    ELSE add(paramStar(b, first.s), ruleParams, w.s.position)))

\* (MustWhiteSpacing Params)?, with 6 Params <- <Param+> inlined
optionalParams(b, s) ==
  Bind(MustWhiteSpacing(b, s), LAMBDA w :
    IF ~w.ok THEN restore(w.s, s)
    ELSE
  Bind(Param(b, w.s), LAMBDA first :
    IF ~first.ok THEN restore(first.s, s)
    ELSE add(paramStar(b, first.s), ruleParams, w.s.position)))

\* 5 Expr <- <(<Action> Action1 MustWhiteSpacing <Entity> Action2
\*             (MustWhiteSpacing Params)? Action3)>
Expr(b, s) ==
  Bind(matchAction(b, s.position), LAMBDA a :
    IF a < 0 THEN Fail(s, s)
    ELSE
  Bind(MustWhiteSpacing(b, captured(s, a, ruleAction, ruleAction1)), LAMBDA w :
    IF ~w.ok THEN Fail(w.s, s)
    ELSE
  Bind(matchEntity(b, w.s.position), LAMBDA e :
    IF e < 0 THEN Fail(w.s, s)
    ELSE
  Bind(optionalParams(b, captured(w.s, e, ruleEntity, ruleAction2)), LAMBDA t :
    Ok(add(add(t, ruleAction3, t.position), ruleExpr, s.position))))))

\* 4 Declaration <- <(<Identifier> Action0 Equal Expr)>
Declaration(b, s) ==
  Bind(Identifier(b, s), LAMBDA id :
    IF ~id.ok THEN Fail(id.s, s)
    ELSE
  Bind(Equal(b, add(add(id.s, rulePegText, s.position), ruleAction0, id.s.position)),
       LAMBDA eq :
    IF ~eq.ok THEN Fail(eq.s, s)
    ELSE
  Bind(Expr(b, eq.s), LAMBDA e :
    IF ~e.ok THEN Fail(e.s, s)
    ELSE Ok(add(e.s, ruleDeclaration, s.position)))))

\* (!EndOfLine .)*
RECURSIVE commentBody(_, _)
commentBody(b, s) ==
  Bind(EndOfLine(b, s), LAMBDA eol :
    IF eol.ok THEN restore(eol.s, s)
    ELSE IF matchDot(b, s.position) < 0 THEN restore(eol.s, s)
    ELSE commentBody(b, advance(restore(eol.s, s), matchDot(b, s.position))))

\* Comment as it would be if Action13 closed both alternatives.
CommentAction13OnBoth(b, s) ==
  IF matchChar(b, s.position, "#") >= 0
  THEN Bind(commentBody(b, advance(s, matchChar(b, s.position, "#"))), LAMBDA t :
         Ok(add(add(t, ruleAction13, t.position), ruleComment, s.position)))
  ELSE IF matchString(b, s.position, "//") >= 0
  THEN Bind(commentBody(b, advance(s, matchString(b, s.position, "//"))), LAMBDA t :
         Ok(add(add(t, ruleAction13, t.position), ruleComment, s.position)))
  ELSE Fail(s, s)

\* 18 Comment <- <(('#' (!EndOfLine .)*) / ('/' '/' (!EndOfLine .)* Action13))>
Comment(b, s) ==
  IF matchChar(b, s.position, "#") >= 0
  THEN Ok(add(commentBody(b, advance(s, matchChar(b, s.position, "#"))),
              ruleComment, s.position))
  ELSE IF matchString(b, s.position, "//") >= 0
  THEN Bind(commentBody(b, advance(s, matchString(b, s.position, "//"))), LAMBDA t :
         Ok(add(add(t, ruleAction13, t.position), ruleComment, s.position)))
  ELSE Fail(s, s)

\* Statement as it would be with its three alternatives optional.
StatementOrNothing(b, s) ==
  Bind(Spacing(b, s), LAMBDA sp :
  Bind(Expr(b, sp.s), LAMBDA e :
  Bind(IF e.ok THEN e ELSE Declaration(b, restore(e.s, sp.s)), LAMBDA d :
  Bind(IF d.ok THEN d ELSE Comment(b, restore(d.s, sp.s)), LAMBDA alt :
    IF alt.ok
    THEN Ok(add(endOfLineStar(b, Spacing(b, alt.s).s), ruleStatement, s.position))
    ELSE Ok(add(restore(alt.s, s), ruleStatement, s.position))))))

\* 1 Statement <- <(Spacing (Expr / Declaration / Comment) Spacing EndOfLine*)>
Statement(b, s) ==
  Bind(Spacing(b, s), LAMBDA sp :
  Bind(Expr(b, sp.s), LAMBDA e :
  Bind(IF e.ok THEN e ELSE Declaration(b, restore(e.s, sp.s)), LAMBDA d :
  Bind(IF d.ok THEN d ELSE Comment(b, restore(d.s, sp.s)), LAMBDA alt :
    IF alt.ok
    THEN Ok(add(endOfLineStar(b, Spacing(b, alt.s).s), ruleStatement, s.position))
    ELSE Fail(alt.s, s)))))

\* The loop of Statement+ after its first Statement.
RECURSIVE statementStar(_, _)
statementStar(b, s) ==
  Bind(Statement(b, s), LAMBDA r :
    IF r.ok THEN statementStar(b, r.s) ELSE restore(r.s, s))

\* Script as it would be without EndOfFile.
ScriptWithoutEndOfFile(b, s) ==
  Bind(Statement(b, Spacing(b, s).s), LAMBDA first :
    IF ~first.ok THEN Fail(first.s, s)
    ELSE
  Bind(statementStar(b, first.s), LAMBDA t :
    Ok(add(t, ruleScript, s.position))))

\* Script as it would be with Statement* for Statement+.
ScriptStatementStar(b, s) ==
  Bind(statementStar(b, Spacing(b, s).s), LAMBDA t :
    IF matchDot(b, t.position) >= 0 THEN Fail(t, s)
    ELSE Ok(add(add(t, ruleEndOfFile, t.position), ruleScript, s.position)))

\* 0 Script <- <(Spacing Statement+ EndOfFile)>, with 26 EndOfFile <- <!.>
Script(b, s) ==
  Bind(Statement(b, Spacing(b, s).s), LAMBDA first :
    IF ~first.ok THEN Fail(first.s, s)
    ELSE
  Bind(statementStar(b, first.s), LAMBDA t :
    IF matchDot(b, t.position) >= 0 THEN Fail(t, s)
    ELSE Ok(add(add(t, ruleEndOfFile, t.position), ruleScript, s.position))))

\* ------------------------------------------------------------- Execute

\* A call of the semantic model (the embedded *AST): its method and its
\* argument, or the method alone.
call(method, text) == <<method, text>>
LineDone == <<"LineDone">>

\* The switch of Execute: the call a record makes with the text register.
dispatch(rule, text) ==
  IF rule = ruleAction0 THEN <<call("addDeclarationIdentifier", text)>>
  ELSE IF rule = ruleAction1 THEN <<call("addAction", text)>>
  ELSE IF rule = ruleAction2 THEN <<call("addEntity", text)>>
  ELSE IF rule = ruleAction3 THEN <<LineDone>>
  ELSE IF rule = ruleAction4 THEN <<call("addParamKey", text)>>
  ELSE IF rule = ruleAction5 THEN <<call("addParamHoleValue", text)>>
  ELSE IF rule = ruleAction6 THEN <<call("addParamAliasValue", text)>>
  ELSE IF rule = ruleAction7 THEN <<call("addParamRefValue", text)>>
  ELSE IF rule = ruleAction8 THEN <<call("addParamCidrValue", text)>>
  ELSE IF rule = ruleAction9 THEN <<call("addParamIpValue", text)>>
  ELSE IF rule = ruleAction10 THEN <<call("addParamValue", text)>>
  ELSE IF rule = ruleAction11 THEN <<call("addParamIntValue", text)>>
  ELSE IF rule = ruleAction12 THEN <<call("addParamValue", text)>>
  ELSE IF rule = ruleAction13 THEN <<LineDone>>
  ELSE << >>

\* The variables of Execute's loop: the text register, the calls made so
\* far, and whether _buffer[begin:end] has panicked.
executing(text, made, panicked) ==
  [text |-> text, calls |-> made, panicked |-> panicked]

\* The body of Execute's loop as it would be if every record that is no
\* action set the text register.
executeTokenTextFromAny(b, cap, token, st) ==
  IF token.pegRule < ruleAction0
  THEN IF token.end > cap
       THEN executing(st.text, st.calls, TRUE)
       ELSE executing(Text(b, token.begin, token.end), st.calls, FALSE)
  ELSE executing(st.text, st.calls \o dispatch(token.pegRule, st.text), FALSE)

\* The body of Execute's loop for one token.  _buffer[begin:end] panics
\* for an end beyond the capacity of _buffer.
executeToken(b, cap, token, st) ==
  IF token.pegRule = rulePegText
  THEN IF token.end > cap
       THEN executing(st.text, st.calls, TRUE)
       ELSE executing(Text(b, token.begin, token.end), st.calls, FALSE)
  ELSE executing(st.text, st.calls \o dispatch(token.pegRule, st.text), FALSE)

\* for _, token := range p.Tokens(), over the tokens lo..hi in order: the
\* first half, then the second from where the first left the variables.
RECURSIVE executeRange(_, _, _, _, _, _)
executeRange(b, cap, toks, lo, hi, st) ==
  IF st.panicked \/ lo > hi THEN st
  ELSE IF lo = hi THEN executeToken(b, cap, toks[lo], st)
  ELSE Bind(executeRange(b, cap, toks, lo, (lo + hi) \div 2, st), LAMBDA half :
         executeRange(b, cap, toks, (lo + hi) \div 2 + 1, hi, half))

\* func (p *Peg) Execute(): the calls it makes, in order, on a buffer of
\* this capacity.
execute(b, cap, t) ==
  executeRange(b, cap, tokens32Tokens(t), 1, Len(tokens32Tokens(t)),
               executing("", << >>, FALSE))

\* ------------------------------------------------------------------ AST

\* A *node32 is << >> for nil or <<n>> for a pointer to the node n.
nilNode == << >>

\* &node32{token32: token}
node32(token) == [token |-> token, up |-> nilNode, next |-> nilNode]

\* The inner loop of AST as it would be without stack.node.next = node.up:
\* each popped node becomes the only child.
RECURSIVE popContainedUnlinked(_, _)
popContainedUnlinked(stack, node) ==
  IF /\ stack # << >>
     /\ Head(stack).token.begin >= node.token.begin
     /\ Head(stack).token.end <= node.token.end
  THEN popContainedUnlinked(Tail(stack), [node EXCEPT !.up = <<Head(stack)>>])
  ELSE <<node>> \o stack

\* The inner loop of AST: while the node on top of the stack lies inside the
\* new node's span, it becomes the new node's first child, before the
\* children the node already has.  The stack's top is its head.
RECURSIVE popContained(_, _)
popContained(stack, node) ==
  IF /\ stack # << >>
     /\ Head(stack).token.begin >= node.token.begin
     /\ Head(stack).token.end <= node.token.end
  THEN popContained(Tail(stack),
                    [node EXCEPT !.up = << [Head(stack) EXCEPT !.next = node.up] >>])
  ELSE <<node>> \o stack

\* The body of AST's loop as it would be without `continue` on an empty
\* record.
astTokenKeepEmpty(token, stack) == popContained(stack, node32(token))

\* The body of AST's loop for one token.
astToken(token, stack) ==
  IF token.begin = token.end THEN stack ELSE popContained(stack, node32(token))

\* for _, token := range tokens, over the tokens lo..hi in order: the first
\* half, then the second from the stack the first left.  (Len(stack) >= 0
\* holds of every stack; reading it makes TLC compute the stack here rather
\* than carry it unevaluated through the whole fold.)
RECURSIVE astRange(_, _, _, _)
astRange(toks, lo, hi, stack) ==
  IF lo > hi \/ Len(stack) < 0 THEN stack
  ELSE IF lo = hi THEN astToken(toks[lo], stack)
  ELSE Bind(astRange(toks, lo, (lo + hi) \div 2, stack), LAMBDA half :
         astRange(toks, (lo + hi) \div 2 + 1, hi, half))

\* The stack of AST when its loop ends.
astStack(t) == astRange(tokens32Tokens(t), 1, Len(tokens32Tokens(t)), << >>)

\* func (t *tokens32) AST() *node32
tokens32AST(t) ==
  IF astStack(t) # << >> THEN <<Head(astStack(t))>> ELSE nilNode

\* ---------------------------------------------------------- parseError

\* sort.Ints
RECURSIVE sortInts(_)
sortInts(xs) ==
  IF xs = << >> THEN << >>
  ELSE LET m == CHOOSE i \in 1..Len(xs) : \A j \in 1..Len(xs) : xs[i] <= xs[j]
       IN <<xs[m]>> \o sortInts([k \in 1..(Len(xs) - 1) |-> IF k < m THEN xs[k] ELSE xs[k + 1]])

textPosition(line, symbol) == [line |-> line, symbol |-> symbol]

\* The inner loop of translatePositions: the next j whose position is not i.
RECURSIVE skipSame(_, _, _)
skipSame(positions, j, i) ==
  IF j > Len(positions) THEN j
  ELSE IF positions[j] # i THEN j
  ELSE skipSame(positions, j + 1, i)

\* The loop of translatePositions from buffer index i (0-based) on; j is the
\* 1-based index of the next position to translate.
RECURSIVE translateFrom(_, _, _, _, _, _, _)
translateFrom(b, positions, i, j, line, symbol, translations) ==
  IF i >= Len(b) THEN translations
  ELSE LET nl   == At(b, i) = "\n"
           ln   == IF nl THEN line + 1 ELSE line
           sy   == IF nl THEN 0 ELSE symbol + 1
           tr   == (positions[j] :> textPosition(ln, sy)) @@ translations
           next == skipSame(positions, j + 1, i)
       IN IF i = positions[j]
          THEN IF next > Len(positions) THEN tr
               ELSE translateFrom(b, positions, i + 1, next, ln, sy, tr)
          ELSE translateFrom(b, positions, i + 1, j, ln, sy, translations)

\* func translatePositions(buffer []rune, positions []int) textPositionMap
translatePositions(b, positions) ==
  translateFrom(b, sortInts(positions), 0, 1, 1, 0, << >>)

\* translations[k]: the zero textPosition for a key the map lacks.
lookup(translations, k) ==
  IF k \in DOMAIN translations THEN translations[k] ELSE textPosition(0, 0)

\* func (e *parseError) Error() string.  The string is the fixed format
\* filled with these values, which stand for it: the rule name, the line
\* and symbol of begin and of end, and the text between them.
parseErrorError(b, m) ==
  Bind(translatePositions(b, <<m.begin, m.end>>), LAMBDA translations :
     [rule        |-> rul3s[m.pegRule + 1],
      beginLine   |-> lookup(translations, m.begin).line,
      beginSymbol |-> lookup(translations, m.begin).symbol,
      endLine     |-> lookup(translations, m.end).line,
      endSym      |-> lookup(translations, m.end).symbol,
      quote       |-> Text(b, m.begin, m.end)])

\* ------------------------------------------------------------- inputs

\* The keywords of the grammar, and words that are none of them.
ActionWords == {"create", "delete", "start", "stop", "update", "check", "attach", "detach"}
EntityWords ==
  {"vpc", "subnet", "instance", "tag", "role", "securitygroup", "routetable",
   "storageobject", "queue", "topic", "subscription", "bucket", "route",
   "internetgateway", "keypair", "policy", "group", "user", "volume"}
OtherActionWords == {"creat", "creates", "run", "stopstart"}
OtherEntityWords == {"unknownentity", "rout", "routes", "routetables", "vpccreate", "volum"}

\* `a e` for a word a in the Action position and a word e in the Entity one.
KeywordTexts ==
  {a \o " " \o e : a \in ActionWords \cup OtherActionWords,
                   e \in EntityWords \cup OtherEntityWords}

\* The longest value text enumerated.
MaxValueLen == 3

ValueChars == {"1", "a", "-", ".", "/"}

RECURSIVE StringsOver(_, _)
StringsOver(chars, n) ==
  IF n = 0 THEN {""} ELSE {c \o t : c \in chars, t \in StringsOver(chars, n - 1)}

ValueStrings == UNION {StringsOver(ValueChars, n) : n \in 1..MaxValueLen}

\* What follows a value: end of input, whitespace, an end of line, a Param.
ValueTails == {"", " ", "\n", " k=v"}

\* A statement with one Param whose value is v, then a tail.
ParamText(v, tail) == "create vpc k=" \o v \o tail

ValueTexts == {ParamText(v, tail) : v \in ValueStrings, tail \in ValueTails}

\* digit+ c1 digit+ c2 digit+ c3 digit+ '/' digit+ for separators c1, c2, c3.
Separators == {".", "x", "5", "/", " ", "\n"}
QuadText(n, c1, c2, c3) == n \o c1 \o "2" \o c2 \o "3" \o c3 \o "4"
CidrTexts ==
  {ParamText(QuadText(n, c1, c2, c3) \o "/5", "") :
     n \in {"1", "10"}, c1 \in Separators, c2 \in Separators, c3 \in Separators}
IpTexts ==
  {ParamText(QuadText("1", c, c, c), tail) : c \in Separators, tail \in ValueTails}

\* The most fragments a generated script is made of.
MaxFrags == 3

Fragments == {"create vpc", "x=", "k=1", "# c", "// c", " ", "\n", "\r"}

RECURSIVE Concats(_)
Concats(n) ==
  IF n = 0 THEN {""} ELSE {f \o t : f \in Fragments, t \in Concats(n - 1)}

ScriptTexts == UNION {Concats(n) : n \in 0..MaxFrags}

\* The most statements of a text made of terminated statements.
MaxStatements == 2

\* Statements, one of each kind, and the end-of-line markers.
StatementWords ==
  {"create vpc", "x = create vpc k=v", "# c", "// c"}
EndOfLines == {"\n", "\r\n", "\r"}

\* n statements, each followed by an end-of-line marker.
RECURSIVE Terminated(_)
Terminated(n) ==
  IF n = 0 THEN {""}
  ELSE {w \o eol \o t : w \in StatementWords, eol \in EndOfLines, t \in Terminated(n - 1)}

TerminatedTexts == UNION {Terminated(n) : n \in 1..MaxStatements}

\* Whitespace and line terminators only, or nothing at all.
RECURSIVE Blanks(_)
Blanks(n) ==
  IF n = 0 THEN {""} ELSE {c \o t : c \in {" ", "\n", "\r"}, t \in Blanks(n - 1)}

BlankTexts == UNION {Blanks(n) : n \in 0..MaxFrags}

\* The texts the claims name.
EndToEndText ==
  "vpcid = create vpc cidr=10.0.0.0/16\ncreate subnet vpc=$vpcid cidr=10.0.0.1/24"
NamedTexts ==
  { EndToEndText,
    ParamText("10.0.0.0/16", ""), ParamText("10.0.0.0", ""),
    ParamText("5-10", ""), ParamText("42", ""),
    ParamText("1abc", ""), ParamText("5-10-15", ""), ParamText("1x2x3x4/5", ""),
    ParamText("$ref", ""), ParamText("@alias", ""), ParamText("{ hole }", ""),
    "i-12345 = create instance", "myvar = create instance",
    "a1 = create vpc", "create vpc k1=v", "create vpc k=$r1", "create vpc k={a1}",
    "# c\ncreate vpc", "// c\ncreate vpc",
    "create unknownentity", "create vpc create subnet", "create vpc# c",
    "create = create vpc", "create vpc k=1 create subnet" }

Texts ==
  NamedTexts \cup KeywordTexts \cup ValueTexts \cup CidrTexts \cup IpTexts
  \cup ScriptTexts \cup TerminatedTexts

\* ------------------------------------------------------------ the state

\* The parser instances.
Insts == {1, 2}

VARIABLES
  Buffer,      \* Peg.Buffer: the text to parse
  buffer,      \* Peg.buffer: its code points and the end symbol
  inited,      \* whether Init has set p.rules, p.parse and p.reset
  position,    \* the closures' position
  tokenIndex,  \* the closures' tokenIndex
  max,         \* the closures' max
  tree,        \* the closures' tree, the store Add writes
  tokens,      \* Peg.tokens32, what Tokens() exposes
  err,         \* what the last Parse returned
  calls,       \* the calls the last Execute made on the semantic model
  pc,          \* where the caller of each instance is
  runs         \* how many times the caller has called Parse

vars ==
  <<Buffer, buffer, inited, position, tokenIndex, max, tree, tokens, err, calls,
    pc, runs>>

\* A returned error: nil (failed = FALSE) or &parseError{p, max}.
nilError == [failed |-> FALSE, max |-> zeroToken]
parseError(m) == [failed |-> TRUE, max |-> m]

\* p.buffer = []rune(p.Buffer), with endSymbol appended unless it ends in one.
resetBuffer(str) ==
  LET r == Runes(str)
  IN IF Len(r) = 0 \/ r[Len(r)] # endSymbol THEN Append(r, endSymbol) ELSE r

\* &Peg{Buffer: text}: nothing of the parser is set before Init.
Constructed(texts) ==
  /\ Buffer \in texts
  /\ buffer = [p \in Insts |-> << >>]
  /\ inited = [p \in Insts |-> FALSE]
  /\ position = [p \in Insts |-> 0]
  /\ tokenIndex = [p \in Insts |-> 0]
  /\ max = [p \in Insts |-> zeroToken]
  /\ tree = [p \in Insts |-> nilTokens32]
  /\ tokens = [p \in Insts |-> nilTokens32]
  /\ err = [p \in Insts |-> nilError]
  /\ calls = [p \in Insts |-> << >>]
  /\ pc = [p \in Insts |-> "new"]
  /\ runs = [p \in Insts |-> 0]

\* Init as it would be if max were one variable of the package, shared by
\* the instances.
PegInitSharedMax(p) ==
  /\ pc[p] = "new"
  /\ max' = [q \in Insts |-> zeroToken]
  /\ position' = [position EXCEPT ![p] = 0]
  /\ tokenIndex' = [tokenIndex EXCEPT ![p] = 0]
  /\ buffer' = [buffer EXCEPT ![p] = resetBuffer(Buffer[p])]
  /\ tree' = [tree EXCEPT ![p] = makeTokens32(MaxInt16)]
  /\ inited' = [inited EXCEPT ![p] = TRUE]
  /\ pc' = [pc EXCEPT ![p] = "ready"]
  /\ UNCHANGED <<Buffer, tokens, err, calls, runs>>

\* Init as it would be if max were a field that outlives the closures.
PegInitKeepMax(p) ==
  /\ pc[p] = "new"
  /\ max' = max
  /\ position' = [position EXCEPT ![p] = 0]
  /\ tokenIndex' = [tokenIndex EXCEPT ![p] = 0]
  /\ buffer' = [buffer EXCEPT ![p] = resetBuffer(Buffer[p])]
  /\ tree' = [tree EXCEPT ![p] = makeTokens32(MaxInt16)]
  /\ inited' = [inited EXCEPT ![p] = TRUE]
  /\ pc' = [pc EXCEPT ![p] = "ready"]
  /\ UNCHANGED <<Buffer, tokens, err, calls, runs>>

\* func (p *Peg) Init(): fresh closure variables, p.reset(), a fresh tree.
PegInit(p) ==
  /\ pc[p] = "new"
  /\ max' = [max EXCEPT ![p] = zeroToken]
  /\ position' = [position EXCEPT ![p] = 0]
  /\ tokenIndex' = [tokenIndex EXCEPT ![p] = 0]
  /\ buffer' = [buffer EXCEPT ![p] = resetBuffer(Buffer[p])]
  /\ tree' = [tree EXCEPT ![p] = makeTokens32(MaxInt16)]
  /\ inited' = [inited EXCEPT ![p] = TRUE]
  /\ pc' = [pc EXCEPT ![p] = "ready"]
  /\ UNCHANGED <<Buffer, tokens, err, calls, runs>>

\* Reset as it would be if p.reset left max alone.
ResetKeepMax(p) ==
  /\ pc[p] = "new"
  /\ inited[p]
  /\ position' = [position EXCEPT ![p] = 0]
  /\ tokenIndex' = [tokenIndex EXCEPT ![p] = 0]
  /\ buffer' = [buffer EXCEPT ![p] = resetBuffer(Buffer[p])]
  /\ pc' = [pc EXCEPT ![p] = "ready"]
  /\ UNCHANGED <<Buffer, inited, max, tree, tokens, err, calls, runs>>

\* Reset as it would be if p.reset appended the end symbol to the buffer it
\* has, without taking the code points of p.Buffer again.
ResetAppendsAgain(p) ==
  /\ pc[p] \in {"new", "ready"}
  /\ inited[p]
  /\ max' = [max EXCEPT ![p] = zeroToken]
  /\ position' = [position EXCEPT ![p] = 0]
  /\ tokenIndex' = [tokenIndex EXCEPT ![p] = 0]
  /\ buffer' = [buffer EXCEPT ![p] = Append(buffer[p], endSymbol)]
  /\ pc' = [pc EXCEPT ![p] = "ready"]
  /\ UNCHANGED <<Buffer, inited, tree, tokens, err, calls, runs>>

\* func (p *Peg) Reset(): p.reset, which Init has set.  It may be called
\* again before Parse.
Reset(p) ==
  /\ pc[p] \in {"new", "ready"}
  /\ inited[p]
  /\ max' = [max EXCEPT ![p] = zeroToken]
  /\ position' = [position EXCEPT ![p] = 0]
  /\ tokenIndex' = [tokenIndex EXCEPT ![p] = 0]
  /\ buffer' = [buffer EXCEPT ![p] = resetBuffer(Buffer[p])]
  /\ pc' = [pc EXCEPT ![p] = "ready"]
  /\ UNCHANGED <<Buffer, inited, tree, tokens, err, calls, runs>>

\* p.parse: the Script rule on the closure state, then p.tokens32 = tree,
\* trimmed to tokenIndex when the rule matched.
parse(b, s) ==
  Bind(Script(b, s), LAMBDA r :
     [s      |-> r.s,
      tokens |-> IF r.ok THEN tokens32Trim(r.s.tree, r.s.tokenIndex) ELSE r.s.tree,
      err    |-> IF r.ok THEN nilError ELSE parseError(r.s.max)])

\* func (p *Peg) Parse(rule ...int) error
Parse(p) ==
  /\ pc[p] = "ready"
  /\ inited[p]
  /\ \E r \in {parse(buffer[p], closure(position[p], tokenIndex[p], tree[p], max[p]))} :
        /\ position' = [position EXCEPT ![p] = r.s.position]
        /\ tokenIndex' = [tokenIndex EXCEPT ![p] = r.s.tokenIndex]
        /\ tree' = [tree EXCEPT ![p] = r.s.tree]
        /\ max' = [max EXCEPT ![p] = r.s.max]
        /\ tokens' = [tokens EXCEPT ![p] = r.tokens]
        /\ err' = [err EXCEPT ![p] = r.err]
  /\ pc' = [pc EXCEPT ![p] = "parsed"]
  /\ runs' = [runs EXCEPT ![p] = runs[p] + 1]
  /\ UNCHANGED <<Buffer, buffer, inited, calls>>

\* The most a buffer's capacity exceeds its length by.
MaxSlack == 1

\* cap(p.buffer): what the runtime allocated for []rune(p.Buffer) and the
\* appended end symbol, at least the length.
Caps(b) == Len(b)..(Len(b) + MaxSlack)

\* func (p *Peg) Execute()
Execute(p) ==
  /\ pc[p] = "parsed"
  /\ \E cap \in Caps(buffer[p]) : \E r \in {execute(buffer[p], cap, tokens[p])} :
        /\ calls' = [calls EXCEPT ![p] = r.calls]
        /\ pc' = [pc EXCEPT ![p] = IF r.panicked THEN "panicked" ELSE "executed"]
  /\ UNCHANGED <<Buffer, buffer, inited, position, tokenIndex, max, tree, tokens,
                 err, runs>>

\* The most Parse calls a caller makes on one instance.
MaxRuns == 2

\* p.Buffer = text: the caller gives a used instance its next text.
SetBuffer(p, text) ==
  /\ pc[p] \in {"parsed", "executed", "panicked"}
  /\ runs[p] < MaxRuns
  /\ Buffer' = [Buffer EXCEPT ![p] = text]
  /\ pc' = [pc EXCEPT ![p] = "new"]
  /\ UNCHANGED <<buffer, inited, position, tokenIndex, max, tree, tokens, err,
                 calls, runs>>

\* One instance, used once: Init, Parse, Execute on any of the texts.
Init == Constructed({[p \in Insts |-> IF p = 1 THEN t ELSE ""] : t \in Texts})

Next == \E p \in {1} : PegInit(p) \/ Parse(p) \/ Execute(p)

Spec == Init /\ [][Next]_vars

\* Two instances, each initialised (Init) or, once initialised, reset
\* (Reset) before every parse; the first is given further texts after its
\* first use.
FewTexts ==
  {EndToEndText, "create vpc", "create vpc k=1a", "x = create vpc k=1\n",
   "// c\ncreate", ""}

InitTwo == Constructed([Insts -> FewTexts])

NextTwo ==
  \/ \E p \in Insts : PegInit(p) \/ Reset(p) \/ Parse(p) \/ Execute(p)
  \/ \E t \in FewTexts : SetBuffer(1, t)

SpecTwo == InitTwo /\ [][NextTwo]_vars

\* The texts on which the rules are applied at every offset.
RuleTexts == NamedTexts \cup KeywordTexts \cup FewTexts \cup Terminated(1)

\* One instance that is initialised and parses, for the rules' own claims.
InitRules == Constructed({[p \in Insts |-> IF p = 1 THEN t ELSE ""] : t \in RuleTexts})

NextRules == \E p \in {1} : PegInit(p) \/ Parse(p)

SpecRules == InitRules /\ [][NextRules]_vars

\* ------------------------------------------- the store, step by step
\* The matcher's steps on the store taken one at a time, on a store made
\* with a small length in place of math.MaxInt16 so that it grows.

\* The longest store made, and the most records added to it.
MaxStoreLen == 2
MaxAdds == 3

StoreTexts == {"ab"}
StoreRules == {ruleWhitespace, ruleAction1}

\* Init, with tokens32{tree: make([]token32, n)} for a small n.
InitStore ==
  /\ Buffer \in {[p \in Insts |-> IF p = 1 THEN t ELSE ""] : t \in StoreTexts}
  /\ buffer = [p \in Insts |-> IF p = 1 THEN resetBuffer(Buffer[p]) ELSE << >>]
  /\ inited = [p \in Insts |-> p = 1]
  /\ position = [p \in Insts |-> 0]
  /\ tokenIndex = [p \in Insts |-> 0]
  /\ max = [p \in Insts |-> zeroToken]
  /\ tree \in {[p \in Insts |-> IF p = 1 THEN makeTokens32(n) ELSE nilTokens32] :
                 n \in 1..MaxStoreLen}
  /\ tokens = [p \in Insts |-> nilTokens32]
  /\ err = [p \in Insts |-> nilError]
  /\ calls = [p \in Insts |-> << >>]
  /\ pc = [p \in Insts |-> IF p = 1 THEN "ready" ELSE "new"]
  /\ runs = [p \in Insts |-> 0]

\* A rule matches from the position to pos and calls add.
AddStep(p) ==
  /\ pc[p] = "ready"
  /\ tokenIndex[p] < MaxAdds
  /\ \E rule \in StoreRules :
     \E pos \in {q \in {position[p], position[p] + 1} : q < Len(buffer[p])} :
     \E s \in {add(advance(closure(position[p], tokenIndex[p], tree[p], max[p]), pos),
                   rule, position[p])} :
        /\ position' = [position EXCEPT ![p] = s.position]
        /\ tokenIndex' = [tokenIndex EXCEPT ![p] = s.tokenIndex]
        /\ tree' = [tree EXCEPT ![p] = s.tree]
        /\ max' = [max EXCEPT ![p] = s.max]
  /\ UNCHANGED <<Buffer, buffer, inited, tokens, err, calls, pc, runs>>

\* A rule fails: position, tokenIndex = positionN, tokenIndexN for a pair
\* saved earlier.
BacktrackStep(p) ==
  /\ pc[p] = "ready"
  /\ \E saved \in (0..position[p]) \X (0..tokenIndex[p]) :
        /\ saved # <<position[p], tokenIndex[p]>>
        /\ position' = [position EXCEPT ![p] = saved[1]]
        /\ tokenIndex' = [tokenIndex EXCEPT ![p] = saved[2]]
  /\ UNCHANGED <<Buffer, buffer, inited, max, tree, tokens, err, calls, pc, runs>>

\* The rule called by p.parse has matched: p.tokens32 = tree; p.Trim(tokenIndex).
FinishStep(p) ==
  /\ pc[p] = "ready"
  /\ tokens' = [tokens EXCEPT ![p] = tokens32Trim(tree[p], tokenIndex[p])]
  /\ pc' = [pc EXCEPT ![p] = "parsed"]
  /\ runs' = [runs EXCEPT ![p] = runs[p] + 1]
  /\ UNCHANGED <<Buffer, buffer, inited, position, tokenIndex, max, tree, err, calls>>

NextStore == \E p \in {1} : AddStep(p) \/ BacktrackStep(p) \/ FinishStep(p)

SpecStore == InitStore /\ [][NextStore]_vars

\* -------------------------------------------------------------- claims

\* The caller of instance p has called Parse, or Parse and then Execute.
Parsed(p) == pc[p] \in {"parsed", "executed", "panicked"}
Executed(p) == pc[p] = "executed"
Succeeded(p) == Parsed(p) /\ ~err[p].failed

\* Instance 1 has parsed and executed this text: it parsed, with these calls.
Yields(text, cs) ==
  (Executed(1) /\ Buffer[1] = text) => (~err[1].failed /\ calls[1] = cs)

\* Instance 1 has parsed this text: Parse returned an error.
Rejects(text) == (Parsed(1) /\ Buffer[1] = text) => err[1].failed

\* How many elements of a sequence satisfy P.
Count(seq, P(_)) == Cardinality({i \in 1..Len(seq) : P(seq[i])})

\* The calls that carry the value of a Param.
ValueMethods ==
  {"addParamHoleValue", "addParamAliasValue", "addParamRefValue",
   "addParamCidrValue", "addParamIpValue", "addParamValue", "addParamIntValue"}

\* The calls of "create vpc k=<v>" when v is dispatched by this method.
ParamCalls(method, v) ==
  <<call("addAction", "create"), call("addEntity", "vpc"),
    call("addParamKey", "k"), call(method, v), LineDone>>

\* ---- C1
EndToEndCalls ==
  << call("addDeclarationIdentifier", "vpcid"),
     call("addAction", "create"), call("addEntity", "vpc"),
     call("addParamKey", "cidr"), call("addParamCidrValue", "10.0.0.0/16"),
     LineDone,
     call("addAction", "create"), call("addEntity", "subnet"),
     call("addParamKey", "vpc"), call("addParamRefValue", "vpcid"),
     call("addParamKey", "cidr"), call("addParamCidrValue", "10.0.0.1/24"),
     LineDone >>

\* C1: on any instance, new or used, after Init or Reset, Parse and Execute
\* of the two-line text, Parse has returned nil and Execute has returned
\* having made exactly the thirteen calls of EndToEndCalls, in that order,
\* and no other call.
C1_EndToEnd ==
  \A p \in Insts :
    (Parsed(p) /\ Buffer[p] = EndToEndText) =>
      /\ ~err[p].failed
      /\ pc[p] # "panicked"
      /\ Executed(p) => calls[p] = EndToEndCalls

\* The first instance has made the calls for the two-line text, its second
\* text, while the second instance has made them for it as its first.
C1_Witness ==
  /\ Executed(1) /\ Buffer[1] = EndToEndText /\ runs[1] = 2
  /\ Executed(2) /\ Buffer[2] = EndToEndText /\ calls[2] = calls[1]
  /\ Len(calls[1]) = 13 /\ calls[1][10] = call("addParamRefValue", "vpcid")

\* ---- C2
\* C2: once Parse has returned, it returned nil exactly when the position
\* is at the end symbol after the whole text and the record before
\* tokenIndex is Script from 0 to the length of the text; then the exposed
\* list is trimmed to tokenIndex and that Script record is its last.  In
\* every other case Parse returned an error and position and tokenIndex are
\* back at 0: nothing of the text counts as parsed.
C2_NoPartialSuccess ==
  Parsed(1) =>
    /\ ~err[1].failed <=>
         /\ position[1] = Len(Buffer[1])
         /\ At(buffer[1], position[1]) = endSymbol
         /\ tokenIndex[1] > 0
         /\ tokenIndex[1] <= Len(tree[1].recs)
         /\ tree[1].recs[tokenIndex[1]] = token32(ruleScript, 0, Len(Buffer[1]))
    /\ ~err[1].failed =>
         /\ tokens[1].len = tokenIndex[1]
         /\ Len(tokens32Tokens(tokens[1])) = tokenIndex[1]
         /\ tokens32Tokens(tokens[1])[tokenIndex[1]]
              = token32(ruleScript, 0, Len(Buffer[1]))
    /\ err[1].failed => position[1] = 0 /\ tokenIndex[1] = 0

\* A Statement matched, and yet Parse returned an error.
C2_Witness ==
  /\ Parsed(1) /\ err[1].failed
  /\ \E i \in 1..Len(tokens[1].recs) : tokens[1].recs[i].pegRule = ruleStatement

\* ---- C3
IsValueCall(c) == c[1] \in ValueMethods
IsParamRecord(t) == t.pegRule = ruleParam

\* Each addParamKey is followed at once by one value call, each value call
\* follows an addParamKey, and there are as many of them as Param records.
OneValuePerParam(cs, toks) ==
  /\ \A i \in 1..Len(cs) :
       /\ cs[i][1] = "addParamKey" => (i < Len(cs) /\ IsValueCall(cs[i + 1]))
       /\ IsValueCall(cs[i]) => (i > 1 /\ cs[i - 1][1] = "addParamKey")
  /\ Count(cs, IsValueCall) = Count(toks, IsParamRecord)

\* C3: as the value of a Param, 10.0.0.0/16 is dispatched as
\* addParamCidrValue only, 10.0.0.0 as addParamIpValue, 5-10 as
\* addParamValue and 42 as addParamIntValue; and after any successful parse
\* Execute makes exactly one value call per Param.
C3_ValueOrderedChoice ==
  /\ Yields(ParamText("10.0.0.0/16", ""), ParamCalls("addParamCidrValue", "10.0.0.0/16"))
  /\ Yields(ParamText("10.0.0.0", ""), ParamCalls("addParamIpValue", "10.0.0.0"))
  /\ Yields(ParamText("5-10", ""), ParamCalls("addParamValue", "5-10"))
  /\ Yields(ParamText("42", ""), ParamCalls("addParamIntValue", "42"))
  /\ (Executed(1) /\ ~err[1].failed) =>
       OneValuePerParam(calls[1], tokens32Tokens(tokens[1]))

C3_Witness ==
  /\ Executed(1) /\ Buffer[1] = ParamText("10.0.0.0/16", "")
  /\ calls[1][4] = call("addParamCidrValue", "10.0.0.0/16")
  /\ Count(calls[1], IsValueCall) = 1

\* ---- C4
\* What may follow a value in C4: end of input, whitespace, an end of line.
ValueEnds == {"", " ", "\n"}

\* C4: for every Param whose value text is made of StringValue characters
\* and is followed by whitespace, an end of line or the end of input, the
\* statement parses and the value call carries the whole value text.
C4_NoMasking ==
  \A v \in ValueStrings \cup {"1abc", "5-10-15"} : \A tail \in ValueEnds :
    (Executed(1) /\ Buffer[1] = ParamText(v, tail) /\ CharSet(v) \subseteq stringValueClass)
      => /\ ~err[1].failed
         /\ Len(calls[1]) = 5
         /\ IsValueCall(calls[1][4]) /\ calls[1][4][2] = v

\* ---- C5
\* n c1 2 c2 3 c3 4 / 5 as the value of a Param.
CidrText(n, c1, c2, c3) == QuadText(n, c1, c2, c3) \o "/5"

IsCidrValue(v) == Yields(ParamText(v, ""), ParamCalls("addParamCidrValue", v))

\* C5 as stated: 1x2x3x4/5 is a CidrValue, and so is
\* digit+ c digit+ c digit+ c digit+ '/' digit+ for any character c.
C5_AnySeparator ==
  /\ IsCidrValue("1x2x3x4/5")
  /\ \A c \in Separators : IsCidrValue(CidrText("1", c, c, c))

\* C5, amended: 1x2x3x4/5 is a CidrValue, and so is
\* digit+ c digit+ c digit+ c digit+ '/' digit+ for any characters c that
\* are not digits (a digit c is taken by the digit+ before it).
C5_AnyNonDigitSeparator ==
  /\ IsCidrValue("1x2x3x4/5")
  /\ \A n \in {"1", "10"} : \A c1, c2, c3 \in Separators \ Digit :
       IsCidrValue(CidrText(n, c1, c2, c3))

C5_Witness ==
  /\ Executed(1) /\ Buffer[1] = ParamText("1x2x3x4/5", "")
  /\ calls[1][4] = call("addParamCidrValue", "1x2x3x4/5")

\* ---- C6
\* The record spans no digit of the buffer.
SpansNoDigit(b, t) == \A k \in t.begin..(t.end - 1) : At(b, k) \notin Digit

\* C6: i-12345 = create instance does not parse; myvar = create instance
\* parses with the four calls of a declaration; and no Identifier record of
\* the token list of a successful parse spans a digit.
C6_IdentifiersHaveNoDigits ==
  /\ Rejects("i-12345 = create instance")
  /\ Yields("myvar = create instance",
            <<call("addDeclarationIdentifier", "myvar"), call("addAction", "create"),
              call("addEntity", "instance"), LineDone>>)
  /\ Succeeded(1) =>
       \A i \in 1..Len(tokens32Tokens(tokens[1])) :
         tokens32Tokens(tokens[1])[i].pegRule = ruleIdentifier
           => SpansNoDigit(buffer[1], tokens32Tokens(tokens[1])[i])

C6_Witness ==
  /\ Parsed(1) /\ Buffer[1] = "i-12345 = create instance" /\ err[1].failed
  /\ err[1].max = token32(ruleIdentifier, 0, 2)

\* ---- C7
IsLineDone(c) == c = LineDone
IsExprRecord(t) == t.pegRule = ruleExpr

\* The Comment records that begin with '/'.
SlashComments(b, toks) ==
  {i \in 1..Len(toks) : toks[i].pegRule = ruleComment /\ At(b, toks[i].begin) = "/"}

LineDones(p) == Count(calls[p], IsLineDone)

\* C7: after a successful parse Execute calls LineDone as many times as
\* there are Expr records plus // comments; # c before a statement gives
\* one LineDone and // c before it gives two.
C7_LineDoneCount ==
  /\ (Executed(1) /\ ~err[1].failed) =>
       LineDones(1) = Count(tokens32Tokens(tokens[1]), IsExprRecord)
                      + Cardinality(SlashComments(buffer[1], tokens32Tokens(tokens[1])))
  /\ (Executed(1) /\ Buffer[1] = "# c\ncreate vpc") =>
       (~err[1].failed /\ LineDones(1) = 1)
  /\ (Executed(1) /\ Buffer[1] = "// c\ncreate vpc") =>
       (~err[1].failed /\ LineDones(1) = 2)

C7_Witness ==
  /\ Executed(1) /\ Buffer[1] = "// c\ncreate vpc" /\ LineDones(1) = 2
  /\ Cardinality(SlashComments(buffer[1], tokens32Tokens(tokens[1]))) = 1

\* ---- C8
UnknownEntityText == "create unknownentity"

C9_Determinism ==
  \A p \in Insts : \A q \in Insts \ {p} :
    (Parsed(p) /\ Parsed(q) /\ Buffer[p] = Buffer[q]) =>
      /\ err[p].failed = err[q].failed
      /\ ~err[p].failed => tokens[p] = tokens[q]
      /\ err[p].failed =>
           /\ err[p].max = err[q].max
           /\ parseErrorError(buffer[p], err[p].max)
                = parseErrorError(buffer[q], err[q].max)

\* The first instance is on its second text, the second on its first, and
\* the text is the same and does not parse.
C9_Witness ==
  /\ Parsed(1) /\ Parsed(2) /\ Buffer[1] = Buffer[2]
  /\ runs[1] = 2 /\ runs[2] = 1
  /\ err[1].failed /\ err[1].max.end > 0

\* ---- C10
\* C10: for every Action keyword a and Entity keyword e, the text a e
\* parses with the calls addAction(a), addEntity(e), LineDone, the longest
\* keyword being taken; a word that is no keyword, in either place, makes
\* Parse return an error.
C10_Keywords ==
  /\ \A a \in ActionWords : \A e \in EntityWords :
       Yields(a \o " " \o e, <<call("addAction", a), call("addEntity", e), LineDone>>)
  /\ \A a \in OtherActionWords : \A e \in EntityWords \cup OtherEntityWords :
       Rejects(a \o " " \o e)
  /\ \A a \in ActionWords : \A e \in OtherEntityWords :
       Rejects(a \o " " \o e)

C10_Witness ==
  /\ Executed(1) /\ Buffer[1] = "create routetable"
  /\ calls[1] = <<call("addAction", "create"), call("addEntity", "routetable"), LineDone>>

\* ---- C11
\* The method called for a HoleValue, AliasValue or RefValue record.
ConstructMethod(rule) ==
  IF rule = ruleHoleValue THEN "addParamHoleValue"
  ELSE IF rule = ruleAliasValue THEN "addParamAliasValue"
  ELSE "addParamRefValue"

IsConstructCall(c) ==
  c[1] \in {"addParamHoleValue", "addParamAliasValue", "addParamRefValue"}

\* The indices of the HoleValue, AliasValue and RefValue records.
ConstructRecords(toks) ==
  {i \in 1..Len(toks) : toks[i].pegRule \in {ruleHoleValue, ruleAliasValue, ruleRefValue}}

\* The k-th index of a set of indices.
Nth(S, k) == CHOOSE i \in S : Cardinality({j \in S : j < i}) = k - 1

\* The Identifier record inside the construct whose record is at index i:
\* the last Identifier record before it.
NameRecord(toks, i) ==
  toks[CHOOSE j \in 1..(i - 1) :
         /\ toks[j].pegRule = ruleIdentifier
         /\ \A k \in (j + 1)..(i - 1) : toks[k].pegRule # ruleIdentifier]

\* The calls for holes, aliases and references are, in order, one per
\* construct record, with the text that Span gives for the record's index.
ConstructCallsCarry(b, toks, cs, Span(_)) ==
  LET made == SelectSeq(cs, IsConstructCall)
      recs == ConstructRecords(toks)
  IN /\ Len(made) = Cardinality(recs)
     /\ \A k \in 1..Len(made) :
          made[k] = call(ConstructMethod(toks[Nth(recs, k)].pegRule), Span(Nth(recs, k)))

\* C11 as stated: after a successful parse, each addParamHoleValue,
\* addParamAliasValue and addParamRefValue call carries the text spanned by
\* its HoleValue, AliasValue or RefValue record.
C11_ConstructText ==
  (Executed(1) /\ ~err[1].failed) =>
    ConstructCallsCarry(buffer[1], tokens32Tokens(tokens[1]), calls[1],
      LAMBDA i : Text(buffer[1], tokens32Tokens(tokens[1])[i].begin,
                      tokens32Tokens(tokens[1])[i].end))

\* C11, amended: after a successful parse, each addParamHoleValue,
\* addParamAliasValue and addParamRefValue call carries the text spanned by
\* the Identifier record inside its construct: the name, without the '$' or
\* '@', and without the braces and the whitespace within them.
C11_ConstructName ==
  (Executed(1) /\ ~err[1].failed) =>
    ConstructCallsCarry(buffer[1], tokens32Tokens(tokens[1]), calls[1],
      LAMBDA i : Text(buffer[1], NameRecord(tokens32Tokens(tokens[1]), i).begin,
                      NameRecord(tokens32Tokens(tokens[1]), i).end))

C11_Witness ==
  /\ Executed(1) /\ Buffer[1] = ParamText("{ hole }", "")
  /\ calls[1][4] = call("addParamHoleValue", "hole")
  /\ ConstructRecords(tokens32Tokens(tokens[1])) # {}

\* ---- C12
\* Instance 1 has parsed this text: Parse returned nil.
Accepts(text) == (Parsed(1) /\ Buffer[1] = text) => ~err[1].failed

\* C12 as stated: every text of zero or more statements, each terminated
\* by an end-of-line marker, parses; a text of no statement (empty, or
\* whitespace and line terminators only) parses, and Execute makes no call.
C12_ZeroOrMoreStatements ==
  /\ \A text \in TerminatedTexts : Accepts(text)
  /\ \A text \in BlankTexts :
       /\ Accepts(text)
       /\ (Executed(1) /\ Buffer[1] = text) => calls[1] = << >>

\* C12, amended: every text of one or more statements, each terminated by
\* an end-of-line marker, parses; a text of no statement (empty, or
\* whitespace and line terminators only) does not: Parse returns an error.
C12_OneOrMoreStatements ==
  /\ \A text \in TerminatedTexts : Accepts(text)
  /\ \A text \in BlankTexts : Rejects(text)

\* Whitespace and a line terminator were matched, and Parse returned an error.
C12_Witness ==
  /\ Parsed(1) /\ Buffer[1] = " \n" /\ err[1].failed
  /\ err[1].max = token32(ruleEndOfLine, 1, 2)

\* ---- C13
\* The records of the Expr, Declaration or Comment of a Statement: an Expr
\* record followed by the record of its Declaration is part of that one.
StatementBodies(toks) ==
  {i \in 1..Len(toks) :
     \/ toks[i].pegRule \in {ruleDeclaration, ruleComment}
     \/ /\ toks[i].pegRule = ruleExpr
        /\ ~(i < Len(toks) /\ toks[i + 1].pegRule = ruleDeclaration)}

\* An end-of-line marker lies in the buffer from offset lo up to offset hi.
EndOfLineWithin(b, lo, hi) == \E k \in lo..(hi - 1) : At(b, k) \in {"\n", "\r"}

\* C13: after a successful parse there is an end-of-line marker between the
\* end of each Expr, Declaration or Comment and the start of the next one;
\* create vpc create subnet, on one line, does not parse.
C13_StatementsEndLines ==
  /\ Rejects("create vpc create subnet")
  /\ Succeeded(1) =>
       \A i, j \in StatementBodies(tokens32Tokens(tokens[1])) :
         i < j => EndOfLineWithin(buffer[1], tokens32Tokens(tokens[1])[i].end,
                                  tokens32Tokens(tokens[1])[j].begin)

\* ---- C14
\* What Parse gives on a freshly initialised instance with this buffer.
ParseFresh(b) == parse(b, closure(0, 0, makeTokens32(MaxInt16), zeroToken))

\* Instance p is ready to parse and its store is not the one Init makes:
\* it has parsed before and was prepared by Reset.
ReadyAfterReset(p) == pc[p] = "ready" /\ tree[p].recs # << >>

\* C14: when Parse is called on an instance that parsed before and was
\* then given a text and Reset, position and tokenIndex are 0 and max is
\* the zero token, and Parse gives what it gives on a freshly initialised
\* instance with the same text: the same nil or error, on success the same
\* trimmed token list, on failure the same max token and error string.
C14_ResetAsFresh ==
  [][\A p \in Insts :
       (ReadyAfterReset(p) /\ pc'[p] = "parsed") =>
         /\ position[p] = 0 /\ tokenIndex[p] = 0 /\ max[p] = zeroToken
         /\ buffer[p] = resetBuffer(Buffer[p])
         /\ Bind(ParseFresh(buffer[p]), LAMBDA fresh :
              /\ err'[p] = fresh.err
              /\ ~fresh.err.failed => tokens'[p] = fresh.tokens
              /\ fresh.err.failed =>
                   parseErrorError(buffer[p], err'[p].max)
                     = parseErrorError(buffer[p], fresh.err.max))]_vars

\* The first instance has failed on its second text after Reset: the
\* exposed store still holds a record of the longer first text.
C14_Witness ==
  /\ Parsed(1) /\ runs[1] = 2 /\ err[1].failed /\ err[1].max.end > 0
  /\ \E i \in 1..Len(tokens[1].recs) : tokens[1].recs[i].end > Len(Buffer[1])

\* ---- C15
\* Offset k holds the last character of a line terminator: '\n', or a
\* '\r' that no '\n' follows.
EndsLine(b, k) == At(b, k) = "\n" \/ (At(b, k) = "\r" /\ At(b, k + 1) # "\n")

\* The offsets before offset o at which a line ends.
LineEndsBefore(b, o) == {k \in 0..(o - 1) : EndsLine(b, k)}

\* The offset at which the line of offset o starts.
LineStart(b, o) ==
  IF LineEndsBefore(b, o) = {} THEN 0
  ELSE 1 + CHOOSE k \in LineEndsBefore(b, o) : \A j \in LineEndsBefore(b, o) : j <= k

\* The 1-based line and column of offset o.
OneBased(b, o) ==
  textPosition(1 + Cardinality(LineEndsBefore(b, o)), 1 + o - LineStart(b, o))

\* C15: the error of a failed parse reports, for the begin and the end of
\* its token, the line that is 1 plus the number of line terminators before
\* the offset and the column that is 1 plus the number of characters from
\* the start of that line to the offset, which is at least 1.
C15_OneBasedPositions ==
  (Parsed(1) /\ err[1].failed) =>
    Bind(parseErrorError(buffer[1], err[1].max), LAMBDA e :
      /\ textPosition(e.beginLine, e.beginSymbol) = OneBased(buffer[1], err[1].max.begin)
      /\ textPosition(e.endLine, e.endSym) = OneBased(buffer[1], err[1].max.end)
      /\ e.beginSymbol >= 1 /\ e.endSym >= 1)

\* ---- C16
\* All the state of instance p.
OwnState(p) ==
  <<Buffer[p], buffer[p], inited[p], position[p], tokenIndex[p], max[p], tree[p],
    tokens[p], err[p], calls[p], pc[p], runs[p]>>

\* Instance p has parsed with the outcome and, on success, the token list
\* that a lone, freshly initialised instance has on the same text.
AsAlone(p) ==
  Parsed(p) =>
    Bind(ParseFresh(resetBuffer(Buffer[p])), LAMBDA alone :
      /\ err[p] = alone.err
      /\ ~alone.err.failed => tokens[p] = alone.tokens)

\* C16: however the Init, Reset, Parse and Execute steps of two instances
\* are interleaved, a step of one instance changes nothing of the other,
\* and each instance that has parsed has the outcome and token list it has
\* when run alone.
C16_Isolation ==
  /\ [][\A p \in Insts :
          pc'[p] # pc[p] => \A q \in Insts \ {p} : OwnState(q)' = OwnState(q)]_vars
  /\ [](\A p \in Insts : AsAlone(p))

\* Both instances have parsed, different texts with different outcomes, and
\* the second has not been executed.
C16_Witness ==
  /\ pc[1] = "executed" /\ pc[2] = "parsed" /\ Buffer[1] # Buffer[2]
  /\ runs[1] = 2 /\ err[1].failed /\ ~err[2].failed /\ max[1] # max[2]

\* ---- C17
\* The closure state on entry to a rule at offset k: one record written.
Entry(k) ==
  closure(k, 1, tokens32Add(makeTokens32(MaxInt16), ruleSpacing, 0, 0, 0), zeroToken)

SamePair(t, s) == t.position = s.position /\ t.tokenIndex = s.tokenIndex

\* A rule's result r from entry state s: a failure has the entry pair.
FailureRestores(r, s) == ~r.ok => SamePair(r.s, s)

\* The result t of a repetition or an optional from entry state s, whose
\* element matches at s or not: the entry pair when it does not, and in any
\* case no record below tokenIndex that ends past the position.
InlineRestores(t, matches, s) ==
  /\ ~matches => SamePair(t, s)
  /\ \A i \in 1..t.tokenIndex : t.tree.recs[i].end <= t.position

\* C17: at every offset of the text, each rule that fails leaves position
\* and tokenIndex as they were on entry, each repetition and optional
\* leaves the pair of its last successful step, and Spacing and
\* WhiteSpacing do not fail.
C17_FailureRestores ==
  inited[1] =>
    \A k \in 0..(Len(buffer[1]) - 1) :
      Bind(Entry(k), LAMBDA s :
        /\ FailureRestores(Script(buffer[1], s), s)
        /\ FailureRestores(Statement(buffer[1], s), s)
        /\ FailureRestores(Expr(buffer[1], s), s)
        /\ FailureRestores(Declaration(buffer[1], s), s)
        /\ FailureRestores(Comment(buffer[1], s), s)
        /\ FailureRestores(Param(buffer[1], s), s)
        /\ FailureRestores(Value(buffer[1], s), s)
        /\ FailureRestores(Identifier(buffer[1], s), s)
        /\ FailureRestores(MustWhiteSpacing(buffer[1], s), s)
        /\ FailureRestores(Equal(buffer[1], s), s)
        /\ FailureRestores(Whitespace(buffer[1], s), s)
        /\ FailureRestores(EndOfLine(buffer[1], s), s)
        /\ Spacing(buffer[1], s).ok
        /\ WhiteSpacing(buffer[1], s).ok
        /\ InlineRestores(whitespaceStar(buffer[1], s), Whitespace(buffer[1], s).ok, s)
        /\ InlineRestores(endOfLineStar(buffer[1], s), EndOfLine(buffer[1], s).ok, s)
        /\ InlineRestores(spaceStar(buffer[1], s),
                          Whitespace(buffer[1], s).ok \/ EndOfLine(buffer[1], s).ok, s)
        /\ InlineRestores(paramStar(buffer[1], s), Param(buffer[1], s).ok, s)
        /\ InlineRestores(optionalParams(buffer[1], s),
                          /\ MustWhiteSpacing(buffer[1], s).ok
                          /\ Param(buffer[1], MustWhiteSpacing(buffer[1], s).s).ok, s)
        /\ InlineRestores(statementStar(buffer[1], s), Statement(buffer[1], s).ok, s)
        /\ InlineRestores(commentBody(buffer[1], s),
                          /\ ~EndOfLine(buffer[1], s).ok
                          /\ matchDot(buffer[1], s.position) >= 0, s))

\* The text is "create vpc k1=v": at offset 11 Param writes the records of
\* the key and fails at the digit, and Expr at offset 11 fails too.
C17_Witness ==
  /\ Parsed(1) /\ Buffer[1] = "create vpc k1=v"
  /\ Bind(Param(buffer[1], Entry(11)), LAMBDA r :
       /\ ~r.ok
       /\ Len(r.s.tree.recs) > 1
       /\ SamePair(r.s, Entry(11)))
  /\ ~Expr(buffer[1], Entry(11)).ok

\* ---- C18
\* The records that stand for a semantic action.
Markers == ruleAction0..ruleAction13

IsRecord(rule, t) == t.pegRule = rule
IsCall(method, c) == c[1] = method

\* Record i of toks lies inside a Statement record that is written after it.
InsideStatement(toks, i) ==
  \E j \in (i + 1)..Len(toks) :
    /\ toks[j].pegRule = ruleStatement
    /\ toks[j].begin <= toks[i].begin /\ toks[i].end <= toks[j].end

\* As many records of the marker as of the rule whose sequence holds it.
MarkersMatch(toks, marker, rule) ==
  Count(toks, LAMBDA t : IsRecord(marker, t)) = Count(toks, LAMBDA t : IsRecord(rule, t))

AbandonedExprText == "create = create vpc"
AbandonedParamText == "create vpc k=1 create subnet"

\* C18: after a successful Parse the token list is as long as tokenIndex
\* and ends with the Script record of the whole text, every marker lies
\* inside a Statement record, there are as many Action1 markers as Expr
\* records (and Action0 as Declaration, Action4 as Param), Execute makes one
\* addAction call per Expr record, and the Expr abandoned on
\* `create = create vpc` and the Param abandoned on `create subnet` make no
\* call.
C18_NoAbandonedRecords ==
  /\ Succeeded(1) =>
       Bind(tokens32Tokens(tokens[1]), LAMBDA toks :
         /\ Len(toks) = tokenIndex[1]
         /\ toks[Len(toks)] = token32(ruleScript, 0, Len(Buffer[1]))
         /\ \A i \in 1..Len(toks) : toks[i].pegRule \in Markers => InsideStatement(toks, i)
         /\ MarkersMatch(toks, ruleAction1, ruleExpr)
         /\ MarkersMatch(toks, ruleAction2, ruleExpr)
         /\ MarkersMatch(toks, ruleAction3, ruleExpr)
         /\ MarkersMatch(toks, ruleAction0, ruleDeclaration)
         /\ MarkersMatch(toks, ruleAction4, ruleParam)
         /\ Executed(1) =>
              /\ Count(calls[1], LAMBDA c : IsCall("addAction", c))
                   = Count(toks, IsExprRecord)
              /\ Count(calls[1], LAMBDA c : IsCall("addParamKey", c))
                   = Count(toks, IsParamRecord))
  /\ Yields(AbandonedExprText,
            << call("addDeclarationIdentifier", "create"), call("addAction", "create"),
               call("addEntity", "vpc"), LineDone >>)
  /\ (Executed(1) /\ Buffer[1] = AbandonedParamText) =>
       /\ ~err[1].failed
       /\ Count(calls[1], LAMBDA c : IsCall("addAction", c)) = 2
       /\ \A i \in 1..Len(calls[1]) : calls[1][i] # call("addParamKey", "create")

\* `create = create vpc` has been executed with one Expr record, and the
\* Expr that Statement tries first at offset 0 writes records and fails.
C18_Witness ==
  /\ Executed(1) /\ Buffer[1] = AbandonedExprText /\ ~err[1].failed
  /\ Count(tokens[1].recs, IsExprRecord) = 1
  /\ Bind(Expr(buffer[1], Entry(0)), LAMBDA r :
       ~r.ok /\ \E i \in 2..Len(r.s.tree.recs) : r.s.tree.recs[i].pegRule = ruleAction1)

\* ---- C19
\* Record x ends at or before record y begins, or its span is inside y's.
BeforeOrInside(x, y) ==
  \/ x.end <= y.begin
  \/ (y.begin <= x.begin /\ x.end <= y.end)

\* C19: in the token list of a successful parse every record has
\* begin <= end <= the length of the text, and of two records the earlier
\* ends at or before the later begins or has its span inside the later's.
C19_PostOrder ==
  Succeeded(1) =>
    Bind(tokens32Tokens(tokens[1]), LAMBDA toks :
      /\ \A i \in 1..Len(toks) :
           toks[i].begin <= toks[i].end /\ toks[i].end <= Len(Buffer[1])
      /\ \A j \in 1..Len(toks) : \A i \in 1..(j - 1) : BeforeOrInside(toks[i], toks[j]))

\* A successful parse of a declaration with a parameter: its list has a
\* record inside a later one and a record that ends before a later one.
C19_Witness ==
  /\ Succeeded(1) /\ Buffer[1] = "x = create vpc k=v\n"
  /\ Bind(tokens32Tokens(tokens[1]), LAMBDA toks :
       /\ \E j \in 1..Len(toks) : \E i \in 1..(j - 1) :
            /\ toks[i].begin < toks[i].end /\ toks[j].begin < toks[i].begin
            /\ toks[i].end <= toks[j].end
       /\ \E j \in 1..Len(toks) : \E i \in 1..(j - 1) :
            toks[i].begin < toks[i].end /\ toks[i].end <= toks[j].begin)

\* ---- C20
\* The nodes linked by next from the node a pointer names, in order.
RECURSIVE Chain(_)
Chain(ptr) == IF ptr = nilNode THEN << >> ELSE <<ptr[1]>> \o Chain(ptr[1].next)

Children(n) == Chain(n.up)

\* Siblings in document order: begins do not decrease and each starts at or
\* after the end of the one before.
InDocumentOrder(ch) ==
  \A i \in 1..(Len(ch) - 1) :
    /\ ch[i].token.begin <= ch[i + 1].token.begin
    /\ ch[i].token.end <= ch[i + 1].token.begin

\* Every node of the subtree of n has a non-empty span, and children that
\* are in document order and inside its span.
RECURSIVE WellLinked(_)
WellLinked(n) ==
  /\ n.token.begin < n.token.end
  /\ InDocumentOrder(Children(n))
  /\ \A i \in 1..Len(Children(n)) :
       /\ n.token.begin <= Children(n)[i].token.begin
       /\ Children(n)[i].token.end <= n.token.end
       /\ WellLinked(Children(n)[i])

\* The tokens of the subtree of n, children first, in the order of the list.
RECURSIVE PostOrderOfAll(_)
RECURSIVE PostOrder(_)
PostOrder(n) == PostOrderOfAll(Children(n)) \o <<n.token>>
PostOrderOfAll(ch) ==
  IF ch = << >> THEN << >> ELSE PostOrder(Head(ch)) \o PostOrderOfAll(Tail(ch))

NonEmptyRecord(t) == t.begin # t.end

\* C20: on the token list of a successful parse AST ends with one subtree
\* on its stack, whose root is the Script record of the whole text and is
\* the node it returns; every node's children are linked in document
\* order; and the nodes are the records with begin # end, each once.
C20_OneTree ==
  Succeeded(1) =>
    /\ Len(astStack(tokens[1])) = 1
    /\ tokens32AST(tokens[1]) = <<Head(astStack(tokens[1]))>>
    /\ Bind(Head(astStack(tokens[1])), LAMBDA root :
         /\ root.token = token32(ruleScript, 0, Len(Buffer[1]))
         /\ root.next = nilNode
         /\ WellLinked(root)
         /\ PostOrder(root) = SelectSeq(tokens32Tokens(tokens[1]), NonEmptyRecord))

\* A successful parse of two statements: the root has two children, and
\* the list holds empty records, which are no nodes.
C20_Witness ==
  /\ Succeeded(1) /\ Buffer[1] = "create vpc\n# c\n"
  /\ Len(Children(Head(astStack(tokens[1])))) >= 2
  /\ \E i \in 1..Len(tokens[1].recs) : ~NonEmptyRecord(tokens[1].recs[i])

\* ---- C21
\* How many nodes the subtrees of these nodes have.
RECURSIVE NodeCountOfAll(_)
RECURSIVE NodeCount(_)
NodeCount(n) == 1 + NodeCountOfAll(Children(n))
NodeCountOfAll(ch) ==
  IF ch = << >> THEN 0 ELSE NodeCount(Head(ch)) + NodeCountOfAll(Tail(ch))

\* C21: for the token list of a successful parse, the tree AST returns has
\* as many nodes as the list has records with begin # end, and its nodes
\* taken children before parent are those records in the list's order.
C21_TreeRoundTrip ==
  Succeeded(1) =>
    Bind(tokens32AST(tokens[1]), LAMBDA root :
      /\ root # nilNode
      /\ NodeCount(root[1]) = Count(tokens32Tokens(tokens[1]), NonEmptyRecord)
      /\ PostOrder(root[1]) = SelectSeq(tokens32Tokens(tokens[1]), NonEmptyRecord))

\* A successful parse of a declaration with a parameter: the tree has a
\* node with three children or more, and the list has empty records.
C21_Witness ==
  /\ Succeeded(1) /\ Buffer[1] = "x = create vpc k=v\n"
  /\ Bind(tokens32AST(tokens[1]), LAMBDA root :
       /\ NodeCount(root[1]) >= 10
       /\ NodeCount(root[1]) < Len(tokens32Tokens(tokens[1]))
       /\ \E i \in 1..Len(PostOrder(root[1])) :
            PostOrder(root[1])[i].pegRule = ruleDeclaration)

\* ---- C22
\* The closure state on entry to a rule at offset k when max ends at e.
EntryWithMax(k, e) == [Entry(k) EXCEPT !.max = token32(ruleUnknown, 0, e)]

\* The results of the rules applied from entry state s.
RuleResults(b, s) ==
  { Script(b, s), Statement(b, s), Expr(b, s), Declaration(b, s), Param(b, s),
    Value(b, s), Identifier(b, s), Equal(b, s), MustWhiteSpacing(b, s),
    Whitespace(b, s), EndOfLine(b, s), Spacing(b, s) }

\* max as the claim has it: a rule that matches leaves it alone, and it is
\* all that a rule that fails changes.
MaxMovesOnFailureOnly(r, s) ==
  /\ r.ok => r.s.max = s.max
  /\ ~r.ok => (r.s.tree = s.tree /\ SamePair(r.s, s))

\* max as add keeps it: it moves only to a non-empty record that ends past
\* the end it had, it ends at or past the end of a rule that matched a
\* non-empty span, and an attempt that wrote no record leaves it alone.
MaxMovesOnMatch(r, s) ==
  /\ r.s.max # s.max =>
       /\ r.s.max.begin < r.s.max.end
       /\ r.s.max.end > s.max.end
       /\ r.s.max.begin >= s.position
  /\ (r.ok /\ r.s.position > s.position) => r.s.max.end >= r.s.position
  /\ r.s.tree = s.tree => r.s.max = s.max
  /\ ~r.ok => SamePair(r.s, s)

\* The ends of max on entry: none yet, and the end of the text.
EntryMaxEnds(b) == {0, Len(b) - 1}

MarkerIndexes(toks) ==
  SelectSeq([i \in 1..Len(toks) |-> i], LAMBDA i : toks[i].pegRule \in Markers)

\* The PegText records before record i.
PegTextsBefore(toks, i) == {j \in 1..(i - 1) : toks[j].pegRule = rulePegText}

\* The text of the last PegText record before record i, or "" without one.
RegisterAt(b, toks, i) ==
  IF PegTextsBefore(toks, i) = {} THEN ""
  ELSE Bind(CHOOSE j \in PegTextsBefore(toks, i) : \A h \in PegTextsBefore(toks, i) : h <= j,
            LAMBDA j : Text(b, toks[j].begin, toks[j].end))

\* C23: the calls Execute has made are, in the order of the list, one call
\* for each Action0..Action13 record and none for any other record, each
\* with the text of the last PegText record before its marker.
C23_OneCallPerMarker ==
  Executed(1) =>
    Bind(tokens32Tokens(tokens[1]), LAMBDA toks :
      /\ \A rule \in ruleUnknown..ruleAction13 :
           Len(dispatch(rule, "t")) = IF rule \in Markers THEN 1 ELSE 0
      /\ Len(calls[1]) = Len(MarkerIndexes(toks))
      /\ \A n \in 1..Len(MarkerIndexes(toks)) :
           <<calls[1][n]>> =
             dispatch(toks[MarkerIndexes(toks)[n]].pegRule,
                      RegisterAt(buffer[1], toks, MarkerIndexes(toks)[n])))

\* A declaration with a parameter has been executed: six calls, of which
\* the key's and the value's carry different texts.
C23_Witness ==
  /\ Executed(1) /\ Buffer[1] = "x = create vpc k=v\n" /\ ~err[1].failed
  /\ Len(calls[1]) = 6
  /\ calls[1][4] = call("addParamKey", "k")
  /\ calls[1][5] = call("addParamValue", "v")
  /\ Len(tokens[1].recs) > 6

\* ---- C24
\* The records a rule has written from Entry(k), where one was there.
Written(r) == SubSeq(r.s.tree.recs, 2, r.s.tokenIndex)

\* The indexes of the records of a rule in recs.
IndexesOf(recs, rule) == {i \in 1..Len(recs) : recs[i].pegRule = rule}

Last(S) == CHOOSE i \in S : \A j \in S : j <= i

\* The records of an Expr that has matched: without a complete Param the
\* Expr record ends where the Entity record ends and there is no Param,
\* Params or Action4 record; with one, the one Params record and the Expr
\* record end where the last Param record ends, and there is an Action4
\* record for each Param record.
ExprEndsAtLastParam(recs) ==
  /\ Cardinality(IndexesOf(recs, ruleEntity)) = 1
  /\ recs[Len(recs)].pegRule = ruleExpr
  /\ IF IndexesOf(recs, ruleParam) = {}
     THEN /\ recs[Len(recs)].end = recs[Last(IndexesOf(recs, ruleEntity))].end
          /\ IndexesOf(recs, ruleParams) = {}
          /\ IndexesOf(recs, ruleAction4) = {}
     ELSE /\ recs[Len(recs)].end = recs[Last(IndexesOf(recs, ruleParam))].end
          /\ Cardinality(IndexesOf(recs, ruleParams)) = 1
          /\ recs[Last(IndexesOf(recs, ruleParams))].end
               = recs[Last(IndexesOf(recs, ruleParam))].end
          /\ Cardinality(IndexesOf(recs, ruleAction4))
               = Cardinality(IndexesOf(recs, ruleParam))

\* C24: at every offset where Expr matches, the optional part has consumed
\* nothing unless a complete Param follows the whitespace, and a Param that
\* fails after complete ones leaves Params ending at the last complete one.
C24_OptionalParams ==
  inited[1] =>
    \A k \in 0..(Len(buffer[1]) - 1) :
      Bind(Expr(buffer[1], Entry(k)), LAMBDA r :
        r.ok => ExprEndsAtLastParam(Written(r)))

\* The text is "create vpc k=1 create subnet": the Expr at offset 0 ends at
\* offset 15 with one Param, the Param tried on `create subnet` having
\* failed after its key.  On "create vpc k1=v" the Expr at offset 0 ends at
\* offset 10, before the whitespace, the Param tried on `k1=v` having
\* failed.
C24_Witness ==
  /\ Parsed(1) /\ Buffer[1] = "create vpc k=1 create subnet"
  /\ Bind(Expr(buffer[1], Entry(0)), LAMBDA r :
       /\ r.ok /\ r.s.position = 15
       /\ Cardinality(IndexesOf(Written(r), ruleParam)) = 1
       /\ ~Param(buffer[1], r.s).ok
       /\ Identifier(buffer[1], r.s).ok)
  /\ Bind(Expr(resetBuffer("create vpc k1=v"), Entry(0)), LAMBDA r :
       /\ r.ok /\ r.s.position = 10
       /\ IndexesOf(Written(r), ruleParam) = {}
       /\ MustWhiteSpacing(resetBuffer("create vpc k1=v"), r.s).ok)

\* ---- C25
\* A result r of a loop's element from entry state s: a match has moved the
\* position forward, and not past the end of the text.
Advances(b, r, s) == r.ok => (s.position < r.s.position /\ r.s.position < Len(b))

\* C25: at every offset of the text each element of a repetition either
\* fails, which ends the loop, or moves the position forward: Statement,
\* Param, Whitespace and EndOfLine (the two alternatives of Space), the
\* character classes of Identifier and of the values, and the `.` of a
\* comment body.  The position is bounded by the length of the text, so each
\* loop ends.
C25_LoopsAdvance ==
  inited[1] =>
    \A k \in 0..(Len(buffer[1]) - 1) :
      /\ Bind(Entry(k), LAMBDA s :
           /\ Advances(buffer[1], Statement(buffer[1], s), s)
           /\ Advances(buffer[1], Param(buffer[1], s), s)
           /\ Advances(buffer[1], Whitespace(buffer[1], s), s)
           /\ Advances(buffer[1], EndOfLine(buffer[1], s), s)
           /\ Advances(buffer[1], Identifier(buffer[1], s), s))
      /\ \A class \in {identifierClass, stringValueClass, Digit} :
           matchClass(buffer[1], k, class) \in {-1, k + 1}
      /\ matchDot(buffer[1], k) \in {-1, k + 1}
      /\ matchDot(buffer[1], Len(buffer[1]) - 1) = -1

\* Two statements have been parsed: Statement matches at offset 0 and again
\* where the first ends, and fails at the end of the text, where the loop
\* of Script ends.
C25_Witness ==
  /\ Succeeded(1) /\ Buffer[1] = "# c\ncreate vpc"
  /\ Bind(Statement(buffer[1], Entry(0)), LAMBDA first :
       /\ first.ok /\ first.s.position = 4
       /\ Bind(Statement(buffer[1], first.s), LAMBDA second :
            /\ second.ok /\ second.s.position = 14
            /\ ~Statement(buffer[1], second.s).ok))

\* ---- C26
\* The sequence is the code points of the text, then one end symbol, which
\* is nowhere else in it.
SentinelOnce(b, text) ==
  /\ Len(b) = Len(text) + 1
  /\ \A i \in 1..Len(text) : b[i] = SubSeq(text, i, i) /\ b[i] # endSymbol
  /\ b[Len(b)] = endSymbol

\* C26: whenever an instance is ready or has parsed, after Init and
\* however many Reset calls, its buffer is the code points of its text
\* followed by one end symbol that occurs nowhere else, and a further
\* Reset changes nothing of the instance.
C26_SentinelOnce ==
  /\ [](\A p \in Insts :
          (inited[p] /\ pc[p] # "new") => SentinelOnce(buffer[p], Buffer[p]))
  /\ [][\A p \in Insts :
          (pc[p] = "ready" /\ pc'[p] = "ready") => OwnState(p)' = OwnState(p)]_vars

\* Instance 1 has parsed a text and was given a shorter one and Reset: its
\* buffer is the new text's, shorter than the records of its store reach.
C26_Witness ==
  /\ ReadyAfterReset(1) /\ runs[1] = 1 /\ Buffer[1] = "create vpc"
  /\ Len(buffer[1]) = 11
  /\ \E i \in 1..Len(tree[1].recs) : tree[1].recs[i].end > 11

\* ---- C27
\* What slot i, from 0, of a store holds.
Slot(t, i) == IF i < Len(t.recs) THEN t.recs[i + 1] ELSE zeroToken

\* C27: the index add passes to Add is at most the length of the store; an
\* Add at an index equal to the length doubles the length, and any other Add
\* leaves it; every Add leaves the slots below the index as they were and
\* writes the slot at the index; and the list a successful parse exposes
\* has exactly tokenIndex slots, those of the store.
C27_StoreGrowsAndTrims ==
  /\ [](tokenIndex[1] <= tree[1].len)
  /\ [][tokenIndex'[1] = tokenIndex[1] + 1 =>
          /\ tree'[1].len = IF tokenIndex[1] = tree[1].len
                            THEN 2 * tree[1].len ELSE tree[1].len
          /\ tokenIndex'[1] <= tree'[1].len
          /\ \A i \in 0..(tokenIndex[1] - 1) : Slot(tree'[1], i) = Slot(tree[1], i)
          /\ Slot(tree'[1], tokenIndex[1]).end = position'[1]
          /\ Slot(tree'[1], tokenIndex[1]).begin = position[1]]_vars
  /\ [](pc[1] = "parsed" =>
          /\ tokens[1].len = tokenIndex[1]
          /\ Len(tokens32Tokens(tokens[1])) <= tokenIndex[1]
          /\ \A i \in 0..(tokenIndex[1] - 1) : Slot(tokens[1], i) = Slot(tree[1], i))

\* A store made with length 1 has doubled twice and holds three records,
\* the first of which is the first one added; the parse has ended.
C27_Witness ==
  /\ pc[1] = "parsed" /\ tree[1].len = 4 /\ tokenIndex[1] = 3
  /\ tokens[1].len = 3
  /\ tokens[1].recs[1] = token32(ruleWhitespace, 0, 0)
  /\ tokens[1].recs[3] = token32(ruleAction1, 1, 1)

\* ---- C28
\* The index of the end symbol in a buffer, which is the length of its text.
EndIndex(b) == Len(b) - 1

\* The character classes the rules test buffer[position] against.
Classes == {identifierClass, stringValueClass, Digit, Upper, Lower}

\* The literals' first characters and the other single characters tested.
SingleChars == {"c", "d", "s", "a", "u", "v", "i", "t", "r", "q", "k", "p", "g",
                "=", "#", "/", ".", "-", "$", "@", "{", "}", " ", "\t", "\r", "\n"}

\* C28: no primitive matches at the end symbol, and once a parse has ended
\* the position, max and every record of the store, those of abandoned
\* attempts too, end at or before the end symbol's index, which is the
\* length of the text.
C28_PositionInBounds ==
  /\ inited[1] =>
       /\ buffer[1][Len(buffer[1])] = endSymbol
       /\ matchDot(buffer[1], EndIndex(buffer[1])) = -1
       /\ \A class \in Classes : matchClass(buffer[1], EndIndex(buffer[1]), class) = -1
       /\ \A c \in SingleChars : matchChar(buffer[1], EndIndex(buffer[1]), c) = -1
  /\ Parsed(1) =>
       /\ position[1] <= EndIndex(buffer[1])
       /\ EndIndex(buffer[1]) = Len(Buffer[1])
       /\ max[1].end <= Len(Buffer[1])
       /\ \A i \in 1..Len(tree[1].recs) :
            tree[1].recs[i].begin <= tree[1].recs[i].end
              /\ tree[1].recs[i].end <= Len(Buffer[1])

\* A comment without a line end has been parsed: the body's `.` has run up
\* to the end symbol, where the Comment record and the position end.
C28_Witness ==
  /\ Succeeded(1) /\ Buffer[1] = "# c"
  /\ position[1] = 3 /\ EndIndex(buffer[1]) = 3
  /\ \E i \in 1..Len(tree[1].recs) : tree[1].recs[i] = token32(ruleComment, 0, 3)
  /\ commentBody(buffer[1], Entry(1)).position = 3

\* ---- C29
\* C29: after a Parse that returned an error the exposed list holds no
\* Action0..Action13 record, and an Execute that follows makes no call.
C29_NoCallbackAfterError ==
  (Parsed(1) /\ err[1].failed) =>
    /\ \A i \in 1..Len(tokens32Tokens(tokens[1])) :
         tokens32Tokens(tokens[1])[i].pegRule \notin Markers
    /\ Executed(1) => calls[1] = << >>

\* ---- C30
\* The characters of a string.
CharsOf(str) == {SubSeq(str, i, i) : i \in 1..Len(str)}

\* C30: no text passed to a value callback holds a space, a tab or a line
\* terminator.
C30_ValuesHaveNoSpace ==
  Executed(1) =>
    \A i \in 1..Len(calls[1]) :
      IsValueCall(calls[1][i]) =>
        CharsOf(calls[1][i][2]) \cap {" ", "\t", "\n", "\r"} = {}

====
